---- MODULE Spec2Model ----
(***************************************************************************)
(* A model of the trading core of devgate/victor:                          *)
(*   RiskManager        src/src/trading/risk_manager.py                    *)
(*   OrderExecutor      src/src/trading/order.py                           *)
(*   TradingStrategy    src/src/trading/strategy.py                        *)
(*   SimulatedPortfolio src/src/backtest/portfolio.py                      *)
(*   analysis cycles    src/main.py, src/src/scheduler/scheduler.py        *)
(*                                                                         *)
(* Conventions.  Money is an integer.  A rate (a Python float such as      *)
(* -0.03) is held in hundredths, so -0.03 is -3.  An Optional value is a   *)
(* sequence: << >> is None and <<x>> is the value x.  Floating point       *)
(* rounding is not modelled: arithmetic is exact.                          *)
(***************************************************************************)
EXTENDS Integers, Sequences, FiniteSets, TLC

VARIABLES
    today,                    \* the calendar day datetime.now() falls on
    daily_stats,              \* RiskManager._daily_stats
    initial_portfolio_value,  \* RiskManager._initial_portfolio_value
    last,                     \* the last call made and what it returned
    recorded_today,           \* history: record_trade calls of this day since the last reset
    dry_run,                  \* OrderExecutor.dry_run
    succeeded,                \* history: successful execute results since the last reset
    initial_cash,             \* SimulatedPortfolio.initial_cash
    cash,                     \* SimulatedPortfolio.cash
    pf_holdings,              \* SimulatedPortfolio._holdings: code -> {name, qty, avg_price}
    trade_history,            \* SimulatedPortfolio.trade_history
    daily_values,             \* SimulatedPortfolio.daily_values
    valid_calls,              \* history: every buy and sell so far had quantity > 0 and price > 0
    strategy,                 \* TradingStrategy: its configuration and _get_price_func
    cycles,                   \* the run_analysis_cycle coroutines: where each one stands
    running,                  \* the coroutine the event loop is executing, 0 when it is idle
    sim_date,                 \* BacktestEngine.run: the day `current` stands at
    replay,                   \* BacktestEngine.run: its arguments, all_articles, and the
                              \* history of the articles given to _process_day
    price_data                \* PriceDataProvider: the cache file of one stock, and the
                              \* records the market data source has for it

riskVars == <<today, daily_stats, initial_portfolio_value, recorded_today>>
execVars == <<dry_run, succeeded>>
pfVars == <<initial_cash, cash, pf_holdings, trade_history, daily_values>>
cycleVars == <<cycles, running>>
replayVars == <<sim_date, replay, price_data>>
vars == <<today, daily_stats, initial_portfolio_value, last, recorded_today,
          dry_run, succeeded, pfVars, valid_calls, strategy, cycleVars, replayVars>>
\* the variables of the other components, which the risk manager and the
\* order executor never touch
nonCore == <<pfVars, valid_calls, strategy, cycleVars, replayVars>>
coreVars == <<today, daily_stats, initial_portfolio_value, recorded_today,
              dry_run, succeeded, strategy, cycleVars, replayVars>>

None == << >>
Some(x) == <<x>>

\* a BacktestEngine whose run has not been called
ReplayIdle ==
    /\ sim_date = 0
    /\ replay = [start_date |-> 0, end_date |-> 0, all_articles |-> << >>,
                 processed |-> << >>]
    /\ price_data = [cache |-> << >>, market |-> << >>]

\* SimulatedPortfolio.__init__ with nothing done yet
PfIdle ==
    /\ initial_cash = 500
    /\ cash = 500
    /\ pf_holdings = << >>
    /\ trade_history = << >>
    /\ daily_values = << >>
    /\ valid_calls = TRUE

\* strategy.* configuration defaults of TradingStrategy.__init__; rates and
\* thresholds in hundredths
split_count == 3
stop_loss_rate == -5
take_profit_rate == 10
max_holding_ratio == 20
buy_threshold == 30
sell_threshold == -20
min_mentions == 3
\* strategy.max_single_trade_ratio (default 0.1), in hundredths
max_single_trade_ratio == 10

\* TradingStrategy.__init__(config) with the defaults; no price getter yet
DefaultStrategy ==
    [max_single_trade_ratio |-> max_single_trade_ratio, split_count |-> split_count,
     stop_loss_rate |-> stop_loss_rate, take_profit_rate |-> take_profit_rate,
     max_holding_ratio |-> max_holding_ratio, buy_threshold |-> buy_threshold,
     sell_threshold |-> sell_threshold, min_mentions |-> min_mentions,
     get_price_func |-> None]

\* the jobs whose handler is run_analysis_cycle: morning_analysis and
\* intraday_analysis
CycleIds == {1, 2}

\* where a run_analysis_cycle coroutine stands: not started, no decisions left
CycleIdle == [pc |-> "idle", queue |-> << >>, order |-> None]

\* the strategy and the scheduler with nothing done yet
LiveIdle ==
    /\ strategy = DefaultStrategy
    /\ cycles = [c \in CycleIds |-> CycleIdle]
    /\ running = 0
    /\ ReplayIdle

----------------------------------------------------------------------------
(* Bounds of the model and configuration values.                           *)

\* strategy.daily_loss_limit (default -0.03), in hundredths
daily_loss_limit == -3
\* strategy.max_trades_per_day; the default of 10 is lowered to keep runs small
max_trades_per_day == 2
\* calendar days the clock runs through
MaxDay == 1
\* record_trade is not guarded by the limit: calls past it that the model follows
MaxOverLimit == 1

Codes == {"A"}
PortfolioValues == {0, 100}
\* record_trade calls the model makes: (action, quantity, fill price, realized P&L)
TradeCalls ==
    { [action |-> "buy",  quantity |-> 1, price |-> Some(10), realized_pnl |-> None],
      [action |-> "sell", quantity |-> 1, price |-> Some(10), realized_pnl |-> Some(-3)],
      [action |-> "sell", quantity |-> 2, price |-> None,     realized_pnl |-> Some(1)],
      [action |-> "sell", quantity |-> 2, price |-> Some(10), realized_pnl |-> None] }

----------------------------------------------------------------------------
(* RiskManager                                                             *)

\* DailyStats(date=d): every counter at its default
DailyStats(d) ==
    [date |-> d, trade_count |-> 0, buy_count |-> 0, sell_count |-> 0,
     total_bought |-> 0, total_sold |-> 0, realized_pnl |-> 0, trades |-> << >>]

\* The RiskManager object as a value: rm.daily_stats, rm.initial_portfolio_value
RM == [daily_stats |-> daily_stats, initial_portfolio_value |-> initial_portfolio_value]

\* reset_daily(): fresh stats dated now, initial value forgotten
reset_daily(rm, now) ==
    [daily_stats |-> DailyStats(now), initial_portfolio_value |-> None]

\* (a slip: the rollover clears the stats but keeps the initial value)
ensure_today_keeping(rm, now) ==
    IF rm.daily_stats.date # now
    THEN [daily_stats |-> DailyStats(now),
          initial_portfolio_value |-> rm.initial_portfolio_value]
    ELSE rm

\* _ensure_today(): reset when the stored date is not today's
ensure_today(rm, now) ==
    IF rm.daily_stats.date # now THEN reset_daily(rm, now) ELSE rm

\* set_initial_portfolio_value(value)
set_initial_portfolio_value(rm, value) ==
    [rm EXCEPT !.initial_portfolio_value = Some(value)]

\* Python truthiness of an Optional[float]: None and 0 are false
Truthy(opt) == opt # None /\ opt[1] # 0

\* (a slip: the comparison made strict)
LossRateAtMost_strict(pnl, initial, limit) ==
    IF initial > 0 THEN pnl * 100 < limit * initial
                   ELSE pnl * 100 > limit * initial

\* realized_pnl / initial <= limit, for initial # 0, without division
LossRateAtMost(pnl, initial, limit) ==
    IF initial > 0 THEN pnl * 100 <= limit * initial
                   ELSE pnl * 100 >= limit * initial

\* (a slip: one trade too many allowed)
TradeLimitReached_strict(ds) == ds.trade_count > max_trades_per_day

\* The trade-count test of can_trade
TradeLimitReached(ds) == ds.trade_count >= max_trades_per_day

\* can_trade(): the manager after the call and the tuple returned
can_trade(rm, now) ==
    LET r == ensure_today(rm, now) IN
    IF TradeLimitReached(r.daily_stats)
    THEN [rm |-> r, ok |-> FALSE, reason |-> "Daily trade limit reached"]
    ELSE IF /\ Truthy(r.initial_portfolio_value)
            /\ LossRateAtMost(r.daily_stats.realized_pnl,
                              r.initial_portfolio_value[1], daily_loss_limit)
    THEN [rm |-> r, ok |-> FALSE, reason |-> "Daily loss limit reached"]
    ELSE [rm |-> r, ok |-> TRUE, reason |-> "OK"]

\* result.price or 0
PriceOrZero(p) == IF p = None THEN 0 ELSE p[1]

\* (a slip: a SELL recorded without its realized P&L books the proceeds instead)
record_trade_derived(rm, now, decision, price, realized_pnl) ==
    LET r == ensure_today(rm, now)
        ds == r.daily_stats
        total_amount == decision.quantity * PriceOrZero(price)
        record == [stock_code |-> decision.stock_code, action |-> decision.action,
                   quantity |-> decision.quantity, price |-> PriceOrZero(price),
                   total_amount |-> total_amount, realized_pnl |-> realized_pnl]
        counted == [ds EXCEPT !.trades = Append(@, record), !.trade_count = @ + 1]
        summed ==
            IF decision.action = "buy"
            THEN [counted EXCEPT !.buy_count = @ + 1, !.total_bought = @ + total_amount]
            ELSE [counted EXCEPT !.sell_count = @ + 1, !.total_sold = @ + total_amount,
                                 !.realized_pnl = IF Truthy(realized_pnl)
                                                  THEN @ + realized_pnl[1]
                                                  ELSE @ + total_amount]
    IN [r EXCEPT !.daily_stats = summed]

\* record_trade(decision, result, realized_pnl): the manager after the call
record_trade(rm, now, decision, price, realized_pnl) ==
    LET r == ensure_today(rm, now)
        ds == r.daily_stats
        total_amount == decision.quantity * PriceOrZero(price)
        record == [stock_code |-> decision.stock_code, action |-> decision.action,
                   quantity |-> decision.quantity, price |-> PriceOrZero(price),
                   total_amount |-> total_amount, realized_pnl |-> realized_pnl]
        counted == [ds EXCEPT !.trades = Append(@, record), !.trade_count = @ + 1]
        summed ==
            IF decision.action = "buy"
            THEN [counted EXCEPT !.buy_count = @ + 1, !.total_bought = @ + total_amount]
            ELSE [counted EXCEPT !.sell_count = @ + 1, !.total_sold = @ + total_amount,
                                 !.realized_pnl = IF Truthy(realized_pnl)
                                                  THEN @ + realized_pnl[1] ELSE @]
    IN [r EXCEPT !.daily_stats = summed]

\* get_daily_stats(): the manager after the call and the dictionary
get_daily_stats(rm, now) ==
    LET r == ensure_today(rm, now)
        ds == r.daily_stats
    IN [rm |-> r,
        stats |-> [date |-> ds.date, trade_count |-> ds.trade_count,
                   buy_count |-> ds.buy_count, sell_count |-> ds.sell_count,
                   total_bought |-> ds.total_bought, total_sold |-> ds.total_sold,
                   realized_pnl |-> ds.realized_pnl,
                   remaining_trades |-> max_trades_per_day - ds.trade_count]]

----------------------------------------------------------------------------
(* OrderExecutor                                                           *)

\* validate_order's stand-in unit price for a BUY without target_price
PlaceholderPrice == 100000
Max(a, b) == IF a >= b THEN a ELSE b
Min(a, b) == IF a <= b THEN a ELSE b

\* StockHolding as the broker client builds it (kis_client.get_balance)
StockHolding(code, qty, avg, cur) ==
    [stock_code |-> code, quantity |-> qty, avg_buy_price |-> avg, current_price |-> cur]

\* TradeDecision values handed to the executor
Decision(a, code, qty, tp) ==
    [action |-> a, stock_code |-> code, quantity |-> qty, target_price |-> tp]

Decisions ==
    { Decision("buy", "A", 1, None), Decision("buy", "A", 3, None),
      Decision("buy", "A", 1, Some(150000)),
      Decision("sell", "A", 1, None), Decision("sell", "A", 3, None) }

\* for h in holdings: if h.stock_code == code: holding = h; break
RECURSIVE FindHolding(_, _)
FindHolding(holdings, code) ==
    IF holdings = << >> THEN None
    ELSE IF Head(holdings).stock_code = code THEN Some(Head(holdings))
    ELSE FindHolding(Tail(holdings), code)

\* (a slip: the single-trade ratio compared with >= instead of >)
validate_order_strict(rm, now, decision, balance) ==
    LET c == can_trade(ensure_today(rm, now), now)
        required_amount ==
            IF Truthy(decision.target_price)
            THEN decision.quantity * decision.target_price[1]
            ELSE decision.quantity * PlaceholderPrice
        holding == FindHolding(balance.holdings, decision.stock_code)
        reason ==
            IF ~c.ok THEN c.reason
            ELSE IF decision.action = "buy" THEN
                IF required_amount > balance.cash THEN "Insufficient cash"
                ELSE IF required_amount * 100 >=
                        max_single_trade_ratio * Max(balance.total_eval_amount, 1)
                THEN "Trade exceeds single trade limit"
                ELSE "OK"
            ELSE IF decision.action = "sell" THEN
                IF holding = None THEN "No position"
                ELSE IF decision.quantity > holding[1].quantity THEN "Insufficient shares"
                ELSE "OK"
            ELSE "OK"
    IN [rm |-> c.rm, ok |-> reason = "OK", reason |-> reason]

\* (a slip: the order is validated without asking can_trade())
validate_order_ungated(rm, now, decision, balance) ==
    LET rm1 == ensure_today(rm, now)
        holding == FindHolding(balance.holdings, decision.stock_code)
        reason ==
            IF decision.action = "buy" THEN
                IF decision.quantity * PlaceholderPrice > balance.cash
                THEN "Insufficient cash"
                ELSE "OK"
            ELSE IF holding = None THEN "No position"
            ELSE IF decision.quantity > holding[1].quantity THEN "Insufficient shares"
            ELSE "OK"
    IN [rm |-> rm1, ok |-> reason = "OK", reason |-> reason]

\* validate_order(decision, balance): the manager after the call and the tuple
validate_order(rm, now, decision, balance) ==
    LET c == can_trade(ensure_today(rm, now), now)
        required_amount ==
            IF Truthy(decision.target_price)
            THEN decision.quantity * decision.target_price[1]
            ELSE decision.quantity * PlaceholderPrice
        holding == FindHolding(balance.holdings, decision.stock_code)
        reason ==
            IF ~c.ok THEN c.reason
            ELSE IF decision.action = "buy" THEN
                IF required_amount > balance.cash THEN "Insufficient cash"
                ELSE IF required_amount * 100 >
                        max_single_trade_ratio * Max(balance.total_eval_amount, 1)
                THEN "Trade exceeds single trade limit"
                ELSE "OK"
            ELSE IF decision.action = "sell" THEN
                IF holding = None THEN "No position"
                ELSE IF decision.quantity > holding[1].quantity THEN "Insufficient shares"
                ELSE "OK"
            ELSE "OK"
    IN [rm |-> c.rm, ok |-> reason = "OK", reason |-> reason]

\* What the broker does during one execute call:
\*   balance   get_balance():       None when it raises, else the balance
\*   holding   get_holding(code):   raised, not held, or the holding (live SELL)
\*   price     get_current_price(): None when it raises, else the price
\*   order     buy_market / sell_market: None when it raises, else the
\*             OrderResult's price (itself None or a number)
Broker(b, h, p, o) == [balance |-> b, holding |-> h, price |-> p, order |-> o]

HoldingRaised == [kind |-> "raise"]
NotHeld == [kind |-> "none"]
Held(h) == [kind |-> "found", h |-> h]

\* ExecutionResult and what the call did at the broker: submitted is a call of
\* buy_market or sell_market, placed is such a call that returned an order,
\* whose order_id is then the broker's
ExecutionResult(rm, d, ok, msg, fill, submitted, placed) ==
    [rm |-> rm, success |-> ok, decision |-> d, error_message |-> msg,
     price |-> fill, submitted |-> submitted, placed |-> placed,
     order_id |-> IF placed THEN Some("KIS") ELSE None]

\* (a slip fixed: the dry run records the simulated trade)
simulate_execution_recording(rm, now, decision) ==
    [ExecutionResult(record_trade(rm, now, decision, decision.target_price, None),
                     decision, TRUE, "", decision.target_price, FALSE, FALSE)
        EXCEPT !.order_id = Some("DRY")]

\* (a slip: the dry run hands the order to the broker)
simulate_execution_live(rm, now, decision) ==
    ExecutionResult(rm, decision, TRUE, "", decision.target_price, TRUE, TRUE)

\* _simulate_execution(decision): a successful result priced at target_price,
\* its order id made up as "DRY-" and the time
simulate_execution(rm, now, decision) ==
    [ExecutionResult(rm, decision, TRUE, "", decision.target_price, FALSE, FALSE)
        EXCEPT !.order_id = Some("DRY")]

\* (a slip: an order call that raised is taken for an order placed)
place_order_optimistic(decision, broker) ==
    IF /\ decision.action # "buy"
       /\ \/ broker.holding.kind = "raise"
          \/ (broker.holding.kind = "found" /\ broker.price = None)
    THEN [submitted |-> FALSE, placed |-> FALSE, msg |-> "Unexpected error",
          fill |-> None, realized_pnl |-> None]
    ELSE [submitted |-> TRUE, placed |-> TRUE, msg |-> "",
          fill |-> IF broker.order = None THEN None ELSE broker.order[1],
          realized_pnl |->
              IF decision.action = "buy" \/ broker.holding.kind = "none" THEN None
              ELSE Some((broker.price[1] - broker.holding.h.avg_buy_price)
                        * decision.quantity)]

\* (a slip: the P&L taken from the order's fill price, not the price read
\* before the order)
place_order_postfill(decision, broker) ==
    IF /\ decision.action # "buy"
       /\ \/ broker.holding.kind = "raise"
          \/ (broker.holding.kind = "found" /\ broker.price = None)
    THEN [submitted |-> FALSE, placed |-> FALSE, msg |-> "Unexpected error",
          fill |-> None, realized_pnl |-> None]
    ELSE IF broker.order = None
    THEN [submitted |-> TRUE, placed |-> FALSE, msg |-> "Order failed",
          fill |-> None, realized_pnl |-> None]
    ELSE [submitted |-> TRUE, placed |-> TRUE, msg |-> "",
          fill |-> broker.order[1],
          realized_pnl |->
              IF decision.action = "buy" \/ broker.holding.kind = "none" THEN None
              ELSE Some((PriceOrZero(broker.order[1]) - broker.holding.h.avg_buy_price)
                        * decision.quantity)]

\* The live branch of execute between validation and record_trade: for a SELL
\* the holding and the price are read first (realized P&L = (price - avg) * qty,
\* None when the stock is not held), then buy_market / sell_market is called.
\* submitted: the order call was made; placed: it returned an OrderResult.
place_order(decision, broker) ==
    IF /\ decision.action # "buy"
       /\ \/ broker.holding.kind = "raise"
          \/ (broker.holding.kind = "found" /\ broker.price = None)
    THEN [submitted |-> FALSE, placed |-> FALSE, msg |-> "Unexpected error",
          fill |-> None, realized_pnl |-> None]
    ELSE IF broker.order = None
    THEN [submitted |-> TRUE, placed |-> FALSE, msg |-> "Order failed",
          fill |-> None, realized_pnl |-> None]
    ELSE [submitted |-> TRUE, placed |-> TRUE, msg |-> "",
          fill |-> broker.order[1],
          realized_pnl |->
              IF decision.action = "buy" \/ broker.holding.kind = "none" THEN None
              ELSE Some((broker.price[1] - broker.holding.h.avg_buy_price)
                        * decision.quantity)]

\* (a slip: a rejected order is handed on to the execution step)
execute_unvalidated(rm, now, dry, decision, broker) ==
    IF broker.balance = None
    THEN ExecutionResult(rm, decision, FALSE, "Failed to get balance", None, FALSE, FALSE)
    ELSE
    LET balance == broker.balance[1]
        rm1 == IF rm.initial_portfolio_value = None
               THEN set_initial_portfolio_value(rm, balance.total_eval_amount)
               ELSE rm
        v == validate_order(rm1, now, decision, balance)
        o == place_order(decision, broker)
    IN
    IF dry THEN simulate_execution(v.rm, now, decision)
    ELSE IF ~o.placed
    THEN ExecutionResult(v.rm, decision, FALSE, o.msg, None, o.submitted, FALSE)
    ELSE ExecutionResult(record_trade(v.rm, now, decision, o.fill, o.realized_pnl),
                         decision, TRUE, "", o.fill, TRUE, TRUE)

\* execute(decision)
execute(rm, now, dry, decision, broker) ==
    IF broker.balance = None
    THEN ExecutionResult(rm, decision, FALSE, "Failed to get balance", None, FALSE, FALSE)
    ELSE
    LET balance == broker.balance[1]
        rm1 == IF rm.initial_portfolio_value = None
               THEN set_initial_portfolio_value(rm, balance.total_eval_amount)
               ELSE rm
        v == validate_order(rm1, now, decision, balance)
        o == place_order(decision, broker)
    IN
    IF ~v.ok THEN ExecutionResult(v.rm, decision, FALSE, v.reason, None, FALSE, FALSE)
    ELSE IF dry THEN simulate_execution(v.rm, now, decision)
    ELSE IF ~o.placed
    THEN ExecutionResult(v.rm, decision, FALSE, o.msg, None, o.submitted, FALSE)
    ELSE ExecutionResult(record_trade(v.rm, now, decision, o.fill, o.realized_pnl),
                         decision, TRUE, "", o.fill, TRUE, TRUE)

\* The calls execute made to the broker and what each returned: the balance
\* always; the holding for a live SELL that passed validation, and the price
\* when the holding was found; the order call when the lookups did not raise.
\* None stands for a call that was not made.
broker_calls(rm, now, dry, decision, broker) ==
    LET rm1 == IF rm.initial_portfolio_value = None
               THEN set_initial_portfolio_value(rm, broker.balance[1].total_eval_amount)
               ELSE rm
        ordering == /\ broker.balance # None
                    /\ validate_order(rm1, now, decision, broker.balance[1]).ok
                    /\ ~dry
        lookups == ordering /\ decision.action # "buy"
        priced == lookups /\ broker.holding.kind = "found"
        ordered == /\ ordering
                   /\ ~lookups \/ (broker.holding.kind # "raise"
                                    /\ (priced => broker.price # None))
    IN [balance |-> broker.balance,
        holding |-> IF lookups THEN Some(broker.holding) ELSE None,
        price |-> IF priced THEN Some(broker.price) ELSE None,
        order |-> IF ordered THEN Some(broker.order) ELSE None]

\* (a slip: break instead of continue once trading is blocked)
RECURSIVE execute_batch_abort(_, _, _, _, _)
execute_batch_abort(rm, now, dry, decisions, brokers) ==
    IF decisions = << >> THEN [rm |-> rm, results |-> << >>]
    ELSE
    LET c == can_trade(rm, now)
        r == execute(c.rm, now, dry, Head(decisions), Head(brokers))
        rest == execute_batch_abort(r.rm, now, dry, Tail(decisions), Tail(brokers))
    IN IF ~c.ok
       THEN [rm |-> c.rm,
             results |-> << [ExecutionResult(c.rm, Head(decisions), FALSE, c.reason,
                                             None, FALSE, FALSE) EXCEPT !.rm = None] >>]
       ELSE [rm |-> rest.rm, results |-> <<[r EXCEPT !.rm = None]>> \o rest.results]

\* execute_batch(decisions): the manager after the call and the result list;
\* brokers[i] is what the broker does while decisions[i] is executed
RECURSIVE execute_batch(_, _, _, _, _)
execute_batch(rm, now, dry, decisions, brokers) ==
    IF decisions = << >> THEN [rm |-> rm, results |-> << >>]
    ELSE
    LET c == can_trade(rm, now)
        r == IF ~c.ok
             THEN ExecutionResult(c.rm, Head(decisions), FALSE, c.reason, None, FALSE, FALSE)
             ELSE execute(c.rm, now, dry, Head(decisions), Head(brokers))
        rest == execute_batch(r.rm, now, dry, Tail(decisions), Tail(brokers))
    IN [rm |-> rest.rm, results |-> <<[r EXCEPT !.rm = None]>> \o rest.results]

----------------------------------------------------------------------------
(* The risk manager driven directly by its callers.                        *)

RiskInit ==
    /\ today = 0
    /\ daily_stats = DailyStats(0)
    /\ initial_portfolio_value = None
    /\ recorded_today = 0

Idle == [op |-> "none"]

\* The clock passes midnight.
NextDay ==
    /\ today < MaxDay
    /\ today' = today + 1
    /\ recorded_today' = 0
    /\ last' = [op |-> "next_day"]
    /\ UNCHANGED <<daily_stats, initial_portfolio_value, dry_run, succeeded, nonCore>>

SetRM(rm) ==
    /\ daily_stats' = rm.daily_stats
    /\ initial_portfolio_value' = rm.initial_portfolio_value

SetInitialPortfolioValue ==
    \E v \in PortfolioValues :
        /\ SetRM(set_initial_portfolio_value(RM, v))
        /\ last' = [op |-> "set_initial_portfolio_value"]
        /\ UNCHANGED <<today, recorded_today, execVars, nonCore>>

\* reset_daily(), called directly or by the risk_reset job: a job starts only
\* when the event loop is not inside another coroutine
ResetDaily ==
    /\ running = 0
    /\ SetRM(reset_daily(RM, today))
    /\ recorded_today' = 0
    /\ succeeded' = 0
    /\ last' = [op |-> "reset_daily"]
    /\ UNCHANGED <<today, dry_run, nonCore>>

CanTrade ==
    LET c == can_trade(RM, today) IN
    /\ SetRM(c.rm)
    /\ last' = [op |-> "can_trade", ok |-> c.ok, reason |-> c.reason]
    /\ UNCHANGED <<today, recorded_today, execVars, nonCore>>

RecordTrade ==
    /\ recorded_today < max_trades_per_day + MaxOverLimit
    /\ \E c \in Codes, t \in TradeCalls :
        /\ SetRM(record_trade(RM, today,
                              [action |-> t.action, stock_code |-> c, quantity |-> t.quantity],
                              t.price, t.realized_pnl))
        /\ last' = [op |-> "record_trade"]
    /\ recorded_today' = recorded_today + 1
    /\ UNCHANGED <<today, execVars, nonCore>>

\* balances handed to validate_order: 2 shares of "A" held, cash as given
ValidateBalance(c) ==
    [cash |-> c, total_eval_amount |-> 2000000,
     holdings |-> << StockHolding("A", 2, 100000, 100000) >>]

\* calls of validate_order: BUYs without a target price, with one, and with
\* the target price 0, at and over the single-trade ratio and the cash; SELLs of
\* a held and of an unheld stock; a HOLD
ValidateCalls ==
    { <<Decision("buy", "A", 2, None), ValidateBalance(1000000)>>,
      <<Decision("buy", "A", 3, None), ValidateBalance(1000000)>>,
      <<Decision("buy", "A", 3, Some(0)), ValidateBalance(1000000)>>,
      <<Decision("buy", "A", 1, None), ValidateBalance(100000)>>,
      <<Decision("buy", "A", 1, Some(150000)), ValidateBalance(100000)>>,
      <<Decision("sell", "A", 2, None), ValidateBalance(1000000)>>,
      <<Decision("sell", "A", 3, None), ValidateBalance(1000000)>>,
      <<Decision("sell", "B", 1, None), ValidateBalance(1000000)>>,
      <<Decision("hold", "A", 1, None), ValidateBalance(1000000)>> }

ValidateOrder ==
    /\ \E call \in ValidateCalls :
        LET decision == call[1]
            balance == call[2]
            v == validate_order(RM, today, decision, balance)
        IN
        /\ SetRM(v.rm)
        /\ last' = [op |-> "validate_order", decision |-> decision,
                    balance |-> balance, ok |-> v.ok, reason |-> v.reason]
    /\ UNCHANGED <<today, recorded_today, execVars, nonCore>>

GetDailyStats ==
    LET g == get_daily_stats(RM, today) IN
    /\ SetRM(g.rm)
    /\ last' = [op |-> "get_daily_stats", stats |-> g.stats]
    /\ UNCHANGED <<today, recorded_today, execVars, nonCore>>

RiskNext ==
    \/ NextDay
    \/ SetInitialPortfolioValue
    \/ ResetDaily
    \/ CanTrade
    \/ RecordTrade
    \/ ValidateOrder
    \/ GetDailyStats

\* OrderExecutor.__init__: the mode is fixed at construction
ExecInit ==
    /\ dry_run \in BOOLEAN
    /\ succeeded = 0

RiskSpecInit ==
    /\ RiskInit
    /\ dry_run = FALSE
    /\ succeeded = 0
    /\ PfIdle
    /\ LiveIdle
    /\ last = Idle

SpecRisk == RiskSpecInit /\ [][RiskNext]_vars

\* The daily-loss rule as the specification words it: a starting value is set
\* (and is not zero, so that the rate exists) and the realized loss rate is at
\* or below the limit.
LossRuleHolds ==
    /\ initial_portfolio_value # None
    /\ initial_portfolio_value[1] > 0
    /\ daily_stats.realized_pnl * 100 <= daily_loss_limit * initial_portfolio_value[1]

\* C1: after record_trade calls on one day with no reset in between, can_trade()
\* returns false with the trade-limit reason once max_trades_per_day (or more)
\* trades have been recorded, and returns true while fewer have been recorded and
\* the daily-loss rule is not triggered.
C1_TradeLimit ==
    last.op = "can_trade" =>
        /\ recorded_today >= max_trades_per_day =>
                ~last.ok /\ last.reason = "Daily trade limit reached"
        /\ (recorded_today < max_trades_per_day /\ ~LossRuleHolds) =>
                last.ok /\ last.reason = "OK"

\* can_trade() refuses right after exactly max_trades_per_day recorded trades
C1_Witness ==
    /\ last.op = "can_trade"
    /\ recorded_today = max_trades_per_day
    /\ ~last.ok
    /\ last.reason = "Daily trade limit reached"

\* C2 as stated: whenever the starting value is set and the loss rate is at or
\* below the limit, can_trade() returns false with the loss-limit reason; while
\* the starting value is unset the loss rule never blocks.
C2_Original ==
    last.op = "can_trade" =>
        /\ LossRuleHolds => ~last.ok /\ last.reason = "Daily loss limit reached"
        /\ initial_portfolio_value = None => last.reason # "Daily loss limit reached"

\* C2 amended: under the loss rule can_trade() returns false, and the reason is
\* the loss limit when fewer than max_trades_per_day trades are recorded (the
\* trade-limit test comes first and gives its own reason otherwise); while the
\* starting value is unset the loss rule never blocks.
C2_LossLimit ==
    last.op = "can_trade" =>
        /\ LossRuleHolds =>
              /\ ~last.ok
              /\ daily_stats.trade_count < max_trades_per_day =>
                    last.reason = "Daily loss limit reached"
        /\ initial_portfolio_value = None => last.reason # "Daily loss limit reached"

\* can_trade() refuses for the loss limit with the loss rate exactly at the limit
C2_Witness ==
    /\ last.op = "can_trade"
    /\ initial_portfolio_value # None
    /\ initial_portfolio_value[1] > 0
    /\ daily_stats.realized_pnl * 100 = daily_loss_limit * initial_portfolio_value[1]
    /\ ~last.ok
    /\ last.reason = "Daily loss limit reached"

----------------------------------------------------------------------------
(* The order executor driven by its callers.                               *)

\* longest batch the model hands to execute_batch
MaxBatch == 3

\* the broker answering every call: a SELL of "A" then realizes a loss
BrokerUp ==
    Broker(Some([cash |-> 1000000, total_eval_amount |-> 2000000,
                 holdings |-> << StockHolding("A", 2, 100000, 100000) >>]),
           Held(StockHolding("A", 2, 100000, 100000)), Some(30000), Some(Some(100000)))

\* what the broker does during one execute call, in the model
Brokers ==
    { BrokerUp,
      [BrokerUp EXCEPT !.price = Some(120000)],
      [BrokerUp EXCEPT !.balance = None],
      [BrokerUp EXCEPT !.balance = Some([cash |-> 50000, total_eval_amount |-> 50000,
                                         holdings |-> << >>])],
      [BrokerUp EXCEPT !.balance = Some([cash |-> 0, total_eval_amount |-> 0,
                                         holdings |-> << >>])],
      [BrokerUp EXCEPT !.holding = HoldingRaised],
      [BrokerUp EXCEPT !.holding = NotHeld],
      [BrokerUp EXCEPT !.price = None],
      [BrokerUp EXCEPT !.order = None],
      [BrokerUp EXCEPT !.order = Some(None)] }

\* a decision of a batch with what the broker does while it is executed
BatchItems ==
    { [decision |-> Decision("buy", "A", 1, None), broker |-> BrokerUp],
      [decision |-> Decision("sell", "A", 1, None), broker |-> BrokerUp],
      [decision |-> Decision("buy", "A", 1, None),
       broker |-> [BrokerUp EXCEPT !.order = None]] }

\* the history of successful results: restarted when the call reset the stats
SucceededAfter(rm, n) ==
    (IF rm.daily_stats.date # daily_stats.date THEN 0 ELSE succeeded) + n

Execute ==
    /\ succeeded <= max_trades_per_day
    /\ \E d \in Decisions, broker \in Brokers :
        LET r == execute(RM, today, dry_run, d, broker) IN
        /\ SetRM(r.rm)
        /\ succeeded' = SucceededAfter(r.rm, IF r.success THEN 1 ELSE 0)
        /\ last' = [op |-> "execute",
                    calls |-> broker_calls(RM, today, dry_run, d, broker),
                    result |-> [r EXCEPT !.rm = None]]
    /\ UNCHANGED <<today, recorded_today, dry_run, nonCore>>

ExecuteBatch ==
    /\ succeeded <= max_trades_per_day
    /\ \E n \in 0..MaxBatch :
       \E items \in [1..n -> BatchItems] :
        LET ds == [i \in 1..n |-> items[i].decision]
            brokers == [i \in 1..n |-> items[i].broker]
            b == execute_batch(RM, today, dry_run, ds, brokers)
        IN
        /\ SetRM(b.rm)
        /\ succeeded' = SucceededAfter(b.rm,
                            Cardinality({ i \in DOMAIN b.results : b.results[i].success }))
        /\ last' = [op |-> "execute_batch", decisions |-> ds, results |-> b.results,
                    before |-> ensure_today(RM, today).daily_stats.trade_count]
    /\ UNCHANGED <<today, recorded_today, dry_run, nonCore>>

ExecNext ==
    \/ NextDay
    \/ ResetDaily
    \/ Execute

BatchNext ==
    \/ NextDay
    \/ ResetDaily
    \/ ExecuteBatch

ExecSpecInit ==
    /\ RiskInit
    /\ ExecInit
    /\ PfIdle
    /\ LiveIdle
    /\ last = Idle

SpecExec == ExecSpecInit /\ [][ExecNext]_vars

SpecBatch == ExecSpecInit /\ [][BatchNext]_vars

\* C3 as stated: every execute that returns success has recorded exactly one
\* trade, in live and in dry-run mode alike, and a failed one records none, so
\* trade_count equals the number of successful executions since the last reset.
C3_Original == daily_stats.trade_count = succeeded

BlockReasons == {"Daily trade limit reached", "Daily loss limit reached"}

\* C4: execute_batch returns one result per decision, in input order, never
\* stopping early; orders placed for earlier decisions of the batch count against
\* the daily limit for later ones; and from the first decision that can_trade()
\* blocks, every remaining decision gets a failed result carrying that reason,
\* with no order submitted.
C4_Batch ==
    last.op = "execute_batch" =>
        LET ds == last.decisions
            rs == last.results
            placedBefore(i) == Cardinality({ j \in 1..(i - 1) : rs[j].placed })
        IN
        /\ Len(rs) = Len(ds)
        /\ \A i \in 1..Len(ds) : rs[i].decision = ds[i]
        /\ \A i \in 1..Len(ds) :
              last.before + placedBefore(i) >= max_trades_per_day =>
                  /\ ~rs[i].success
                  /\ rs[i].error_message = "Daily trade limit reached"
                  /\ ~rs[i].submitted
        /\ \A i \in 1..Len(ds) : \A j \in (i + 1)..Len(ds) :
              (~rs[i].success /\ rs[i].error_message \in BlockReasons) =>
                  /\ ~rs[j].success
                  /\ rs[j].error_message = rs[i].error_message
                  /\ ~rs[j].submitted

\* a batch of three: the first order is placed and uses up the day's limit, the
\* two decisions after it are refused with the trade-limit reason
C4_Witness ==
    /\ last.op = "execute_batch"
    /\ Len(last.results) = 3
    /\ last.before < max_trades_per_day
    /\ last.results[1].placed
    /\ last.results[2].error_message = "Daily trade limit reached"
    /\ last.results[3].error_message = "Daily trade limit reached"
    /\ ~last.results[3].submitted

----------------------------------------------------------------------------
(* SimulatedPortfolio                                                      *)

RECURSIVE GCD(_, _)
GCD(a, b) == IF b = 0 THEN a ELSE GCD(b, a % b)
Abs(x) == IF x < 0 THEN -x ELSE x

\* The real number n/d (d > 0) in lowest terms: what a float holds, exactly
Frac(n, d) ==
    LET g == GCD(Abs(n), d) IN
    IF g = 0 THEN [num |-> 0, den |-> 1] ELSE [num |-> n \div g, den |-> d \div g]

\* (a slip: the old position's cost is left out of the new average)
AveragePrice_forgetful(old_qty, old_avg, quantity, total_cost) ==
    Frac(total_cost, quantity)

\* (old_total + total_cost) / h["qty"] with old_total = h["qty"] * h["avg_price"]
AveragePrice(old_qty, old_avg, quantity, total_cost) ==
    Frac(old_qty * old_avg.num + total_cost * old_avg.den,
         old_avg.den * (old_qty + quantity))

\* The portfolio object as a value
PF == [cash |-> cash, holdings |-> pf_holdings, trade_history |-> trade_history]

PfTradeRecord(d, code, name, action, quantity, price) ==
    [date |-> d, stock_code |-> code, stock_name |-> name, action |-> action,
     quantity |-> quantity, price |-> price, total_amount |-> quantity * price]

\* (a slip: the cash test dropped)
BuyRejected_nocash(pf, quantity, price) == quantity <= 0

\* buy(): the test that returns False
BuyRejected(pf, quantity, price) == quantity * price > pf.cash \/ quantity <= 0

\* buy(stock_code, stock_name, quantity, price, trade_date)
buy(pf, code, name, quantity, price, d) ==
    LET total_cost == quantity * price IN
    IF BuyRejected(pf, quantity, price) THEN [pf |-> pf, ok |-> FALSE]
    ELSE
    LET h == pf.holdings
        held ==
            IF code \in DOMAIN h
            THEN [h EXCEPT ![code] =
                    [name |-> @.name, qty |-> @.qty + quantity,
                     avg_price |-> AveragePrice(@.qty, @.avg_price, quantity, total_cost)]]
            ELSE [c \in DOMAIN h \cup {code} |->
                    IF c = code
                    THEN [name |-> name, qty |-> quantity, avg_price |-> Frac(price, 1)]
                    ELSE h[c]]
    IN [pf |-> [cash |-> pf.cash - total_cost, holdings |-> held,
                trade_history |-> Append(pf.trade_history,
                    PfTradeRecord(d, code, name, "buy", quantity, price))],
        ok |-> TRUE]

\* (a slip: a sold-out position kept with quantity 0)
AfterSell_keep(h, code, quantity) ==
    [h EXCEPT ![code].qty = @ - quantity]

\* h["qty"] -= quantity; del self._holdings[stock_code] when it reaches 0
AfterSell(h, code, quantity) ==
    IF h[code].qty - quantity = 0
    THEN [c \in DOMAIN h \ {code} |-> h[c]]
    ELSE [h EXCEPT ![code].qty = @ - quantity]

\* (a slip: the quantity test dropped)
SellRejected_lax(pf, code, quantity) == code \notin DOMAIN pf.holdings

\* sell(): the two tests that return False
SellRejected(pf, code, quantity) ==
    \/ code \notin DOMAIN pf.holdings
    \/ quantity > pf.holdings[code].qty

\* sell(stock_code, quantity, price, trade_date)
sell(pf, code, quantity, price, d) ==
    IF SellRejected(pf, code, quantity) THEN [pf |-> pf, ok |-> FALSE]
    ELSE [pf |-> [cash |-> pf.cash + quantity * price,
                  holdings |-> AfterSell(pf.holdings, code, quantity),
                  trade_history |-> Append(pf.trade_history,
                      PfTradeRecord(d, code, pf.holdings[code].name, "sell",
                                    quantity, price))],
          ok |-> TRUE]

\* for code, h in self._holdings.items(): stock_value += h["qty"] * price
RECURSIVE StockValue(_, _, _)
StockValue(h, codes, prices) ==
    IF codes = {} THEN 0
    ELSE LET c == CHOOSE y \in codes : TRUE IN
         (IF Truthy(prices[c]) THEN h[c].qty * prices[c][1] ELSE 0)
         + StockValue(h, codes \ {c}, prices)

\* record_daily_value(current_date, price_getter): the snapshot appended;
\* prices[code] is price_getter's answer, None or 0 counting for nothing
snapshot(pf, initial, d, prices) ==
    LET stock_value == StockValue(pf.holdings, DOMAIN pf.holdings, prices)
        total_value == pf.cash + stock_value
    IN [date |-> d, total_value |-> total_value, cash |-> pf.cash,
        stock_value |-> stock_value,
        return_pct |-> Frac((total_value - initial) * 100, initial)]

----------------------------------------------------------------------------
(* The portfolio driven by its callers.                                    *)

\* trades the model lets the history grow to
MaxTrades == 3
\* daily snapshots the model lets the portfolio record
MaxSnapshots == 1

PfCodes == {"A", "B"}
BuyQuantities == {0, 1, 60}
BuyPrices == {10, 20}
SellQuantities == {-1, 1, 2}
SellPrices == {10}
InitialCash == {0, 20, 500}
\* price_getter: a price for "A", none for "B"
PriceGetters == { [c \in PfCodes |-> IF c = "A" THEN Some(10) ELSE None] }

\* SimulatedPortfolio.__init__(initial_cash)
PfInit ==
    /\ initial_cash \in InitialCash
    /\ cash = initial_cash
    /\ pf_holdings = << >>
    /\ trade_history = << >>
    /\ daily_values = << >>
    /\ valid_calls = TRUE

SetPF(pf) ==
    /\ cash' = pf.cash
    /\ pf_holdings' = pf.holdings
    /\ trade_history' = pf.trade_history

Buy ==
    /\ Len(trade_history) < MaxTrades
    /\ \E code \in PfCodes, q \in BuyQuantities, p \in BuyPrices :
        LET r == buy(PF, code, "name", q, p, 1) IN
        /\ SetPF(r.pf)
        /\ last' = [op |-> "buy", ok |-> r.ok, stock_code |-> code,
                    quantity |-> q, price |-> p]
        /\ valid_calls' = (valid_calls /\ q > 0 /\ p > 0)
    /\ UNCHANGED <<initial_cash, daily_values, coreVars>>

Sell ==
    /\ Len(trade_history) < MaxTrades
    /\ \E code \in PfCodes, q \in SellQuantities, p \in SellPrices :
        LET r == sell(PF, code, q, p, 1) IN
        /\ SetPF(r.pf)
        /\ last' = [op |-> "sell", ok |-> r.ok, stock_code |-> code,
                    quantity |-> q, price |-> p]
        /\ valid_calls' = (valid_calls /\ q > 0 /\ p > 0)
    /\ UNCHANGED <<initial_cash, daily_values, coreVars>>

\* with initial_cash = 0 the return rate divides by zero and the call raises
RecordDailyValue ==
    /\ Len(daily_values) < MaxSnapshots
    /\ initial_cash # 0
    /\ \E prices \in PriceGetters :
        daily_values' = Append(daily_values, snapshot(PF, initial_cash, 1, prices))
    /\ last' = [op |-> "record_daily_value"]
    /\ UNCHANGED <<initial_cash, cash, pf_holdings, trade_history, valid_calls, coreVars>>

PfNext ==
    \/ Buy
    \/ Sell
    \/ RecordDailyValue

PfSpecInit ==
    /\ RiskInit
    /\ dry_run = FALSE
    /\ succeeded = 0
    /\ PfInit
    /\ LiveIdle
    /\ last = Idle

SpecPortfolio == PfSpecInit /\ [][PfNext]_vars

\* C8: from initial_cash >= 0, after any buys and sells with positive
\* quantities and positive prices, accepted or rejected, cash >= 0.
C8_CashNonNegative == valid_calls => cash >= 0

\* an accepted buy that spends the cash to the last unit
C8_Witness ==
    /\ valid_calls
    /\ last.op = "buy"
    /\ last.ok
    /\ initial_cash > 0
    /\ cash = 0

\* C9: buy returns false when quantity <= 0 or quantity * price > cash, sell
\* returns false when the stock is not held or the quantity exceeds the held
\* one, and a call that returned false left cash, holdings, trade history and
\* daily values as they were.
C9_Rejected ==
    [][ /\ ( /\ last'.op = "buy"
             /\ (last'.quantity <= 0 \/ last'.quantity * last'.price > cash) )
          => ~last'.ok
        /\ ( /\ last'.op = "sell"
             /\ \/ last'.stock_code \notin DOMAIN pf_holdings
                \/ last'.quantity > pf_holdings[last'.stock_code].qty )
          => ~last'.ok
        /\ (last'.op \in {"buy", "sell"} /\ ~last'.ok) => UNCHANGED pfVars
      ]_vars

\* buy(qty=60, price=10) with cash 500 was refused: cash still 500, no holding;
\* a snapshot recorded before it is still there
C9_Witness ==
    /\ last = [op |-> "buy", ok |-> FALSE, stock_code |-> "A", quantity |-> 60, price |-> 10]
    /\ cash = 500
    /\ "A" \notin DOMAIN pf_holdings
    /\ Len(daily_values) = 1

\* C10: a buy into an existing holding sets its average price to
\* (old_qty * old_avg + qty * price) / (old_qty + qty) and the first buy of a
\* stock sets it to the price paid; a partial sell leaves the average price as
\* it was; a sell that brings the quantity to 0 removes the entry, so the next
\* buy of that stock starts from its own price.
C10_AveragePrice ==
    [][ /\ (last'.op = "buy" /\ last'.ok) =>
              LET c == last'.stock_code
                  q == last'.quantity
                  p == last'.price
              IN IF c \in DOMAIN pf_holdings
                 THEN LET old == pf_holdings[c]
                          new == pf_holdings'[c]
                      IN new.avg_price.num * old.avg_price.den * (old.qty + q)
                           = new.avg_price.den
                             * (old.qty * old.avg_price.num + q * p * old.avg_price.den)
                 ELSE pf_holdings'[c].avg_price = [num |-> p, den |-> 1]
        /\ (last'.op = "sell" /\ last'.ok) =>
              LET c == last'.stock_code
                  q == last'.quantity
              IN IF pf_holdings[c].qty = q
                 THEN c \notin DOMAIN pf_holdings'
                 ELSE /\ c \in DOMAIN pf_holdings'
                      /\ pf_holdings'[c].avg_price = pf_holdings[c].avg_price
      ]_vars

\* "A" bought at 10, sold out, and bought again at 20: the new holding's
\* average price is 20
C10_Witness ==
    /\ Len(trade_history) = 3
    /\ trade_history[1].action = "buy" /\ trade_history[1].stock_code = "A"
    /\ trade_history[1].price = 10
    /\ trade_history[2].action = "sell" /\ trade_history[2].stock_code = "A"
    /\ trade_history[2].quantity = 1
    /\ trade_history[3].action = "buy" /\ trade_history[3].stock_code = "A"
    /\ trade_history[3].price = 20
    /\ pf_holdings["A"].avg_price = [num |-> 20, den |-> 1]
    /\ pf_holdings["A"].qty = 1

----------------------------------------------------------------------------
(* TradingStrategy                                                         *)
(* A confidence (a float in [0, 1]) is held in tenths.  A reason is the    *)
(* sequence of the characters of its fixed text; the formatted number that *)
(* follows it in the f-string is left out.                                 *)

\* TradingSignal: sentiment_sum in hundredths
Signal(code, mentions, sentiment_sum) ==
    [stock_code |-> code, mentions |-> mentions, sentiment_sum |-> sentiment_sum]

\* TradingSignal.avg_sentiment, as a fraction in hundredths
avg_sentiment(signal) ==
    IF signal.mentions = 0 THEN [num |-> 0, den |-> 1]
    ELSE [num |-> signal.sentiment_sum, den |-> signal.mentions]

\* comparisons of a fraction with positive denominator against a number
FracLess(f, x) == f.num < x * f.den
FracGreater(f, x) == f.num > x * f.den
FracAtMost(f, x) == f.num <= x * f.den
FracAtLeast(f, x) == f.num >= x * f.den

\* StockHolding as the strategy reads it, built from whole numbers; the floats
\* current_price and profit_rate (in hundredths) are held as fractions
Position(code, qty, cur, rate) ==
    [stock_code |-> code, quantity |-> qty, current_price |-> Frac(cur, 1),
     profit_rate |-> Frac(rate, 1)]

\* TradeDecision as evaluate builds it (target_price keeps its default)
TradeDecision(a, code, qty, reason, confidence) ==
    [action |-> a, stock_code |-> code, quantity |-> qty, reason |-> reason,
     confidence |-> confidence, target_price |-> None]

StopLossReason ==
    <<"S","t","o","p","-","l","o","s","s"," ","t","r","i","g","g","e","r","e","d">>
TakeProfitReason == <<"T","a","k","e","-","p","r","o","f","i","t">>
NegativeReason ==
    <<"N","e","g","a","t","i","v","e"," ","s","e","n","t","i","m","e","n","t">>
PositiveReason == <<"P","o","s","i","t","i","v","e"," ","n","e","w","s">>

UpperCase ==
    <<"A","B","C","D","E","F","G","H","I","J","K","L","M",
      "N","O","P","Q","R","S","T","U","V","W","X","Y","Z">>
LowerCase ==
    <<"a","b","c","d","e","f","g","h","i","j","k","l","m",
      "n","o","p","q","r","s","t","u","v","w","x","y","z">>

\* str.lower()
lower(s) ==
    [i \in DOMAIN s |->
        IF \E k \in DOMAIN UpperCase : UpperCase[k] = s[i]
        THEN LowerCase[CHOOSE k \in DOMAIN UpperCase : UpperCase[k] = s[i]]
        ELSE s[i]]

\* sub in s
Contains(s, sub) ==
    \E i \in 1..(Len(s) - Len(sub) + 1) : SubSeq(s, i, i + Len(sub) - 1) = sub

\* int(x) of the quotient n / d, d > 0: rounds toward zero
IntOfQuotient(n, d) == IF n >= 0 THEN n \div d ELSE -((-n) \div d)

\* (a slip: the whole cash invested in one trade)
calculate_buy_quantity_allin(st, stock_code, balance) ==
    IF st.get_price_func = None THEN None
    ELSE
    LET current_price == st.get_price_func[1][stock_code] IN
    IF current_price = None THEN None
    ELSE IF current_price[1] <= 0 THEN Some(0)
    ELSE Some(Max(IntOfQuotient(balance.cash, current_price[1]), 0))

\* _calculate_buy_quantity(stock_code, balance): None when it raises (no price
\* getter configured, or the getter raises), else the quantity
calculate_buy_quantity(st, stock_code, balance) ==
    IF st.get_price_func = None THEN None
    ELSE
    LET current_price == st.get_price_func[1][stock_code] IN
    IF current_price = None THEN None
    ELSE IF current_price[1] <= 0 THEN Some(0)
    ELSE Some(Max(IntOfQuotient(balance.cash * st.max_single_trade_ratio,
                                100 * st.split_count * current_price[1]), 0))

\* (a slip: the comparison made strict)
StopLossHit_strict(st, holding) == FracLess(holding.profit_rate, st.stop_loss_rate)

\* holding.profit_rate <= self.stop_loss_rate
StopLossHit(st, holding) == FracAtMost(holding.profit_rate, st.stop_loss_rate)

\* (a slip: the comparison made strict)
TakeProfitHit_strict(st, holding) == FracGreater(holding.profit_rate, st.take_profit_rate)

\* holding.profit_rate >= self.take_profit_rate
TakeProfitHit(st, holding) == FracAtLeast(holding.profit_rate, st.take_profit_rate)

\* (a slip: the partial sells without their floor of one share)
sell_rules_unfloored(st, signal, found) ==
    IF found = None THEN None
    ELSE
    LET holding == found[1] IN
    IF StopLossHit(st, holding)
    THEN Some(TradeDecision("sell", signal.stock_code, holding.quantity,
                            StopLossReason, 10))
    ELSE IF TakeProfitHit(st, holding)
    THEN Some(TradeDecision("sell", signal.stock_code, holding.quantity \div 2,
                            TakeProfitReason, 8))
    ELSE IF FracLess(avg_sentiment(signal), st.sell_threshold)
    THEN Some(TradeDecision("sell", signal.stock_code,
                            holding.quantity \div st.split_count,
                            NegativeReason, Min(signal.mentions, 10)))
    ELSE None

\* the SELL rules of evaluate, tried in order for a held stock: None when the
\* stock is not held or no rule applies
sell_rules(st, signal, found) ==
    IF found = None THEN None
    ELSE
    LET holding == found[1] IN
    IF StopLossHit(st, holding)
    THEN Some(TradeDecision("sell", signal.stock_code, holding.quantity,
                            StopLossReason, 10))
    ELSE IF TakeProfitHit(st, holding)
    THEN Some(TradeDecision("sell", signal.stock_code, Max(holding.quantity \div 2, 1),
                            TakeProfitReason, 8))
    ELSE IF FracLess(avg_sentiment(signal), st.sell_threshold)
    THEN Some(TradeDecision("sell", signal.stock_code,
                            Max(holding.quantity \div st.split_count, 1),
                            NegativeReason, Min(signal.mentions, 10)))
    ELSE None

\* (a slip: the comparison made strict)
PositionLimitReached_strict(st, holding, balance) ==
    LET total == IF FracLess(balance.total_eval_amount, 1)
                 THEN Frac(1, 1) ELSE balance.total_eval_amount
    IN holding.quantity * holding.current_price.num * total.den * 100
           > st.max_holding_ratio * total.num * holding.current_price.den

\* current_ratio >= self.max_holding_ratio, with current_ratio =
\* (quantity * current_price) / max(total_eval_amount, 1)
PositionLimitReached(st, holding, balance) ==
    LET total == IF FracLess(balance.total_eval_amount, 1)
                 THEN Frac(1, 1) ELSE balance.total_eval_amount
    IN holding.quantity * holding.current_price.num * total.den * 100
           >= st.max_holding_ratio * total.num * holding.current_price.den

\* the BUY rule of evaluate
buy_rule(st, signal, found, balance) ==
    IF ~(/\ FracGreater(avg_sentiment(signal), st.buy_threshold)
         /\ signal.mentions >= st.min_mentions)
    THEN None
    ELSE IF found # None /\ PositionLimitReached(st, found[1], balance)
    THEN None
    ELSE
    LET buy_qty == calculate_buy_quantity(st, signal.stock_code, balance) IN
    IF buy_qty # None /\ buy_qty[1] > 0
    THEN Some(TradeDecision("buy", signal.stock_code, buy_qty[1],
                            PositiveReason, Min(signal.mentions, 10)))
    ELSE None

\* (a slip: the BUY rule tried before the SELL rules)
evaluate_buy_first(st, signal, holdings, balance) ==
    LET found == FindHolding(holdings, signal.stock_code)
        bought == buy_rule(st, signal, found, balance)
    IN IF bought # None THEN bought ELSE sell_rules(st, signal, found)

\* evaluate(signal, holdings, balance): None or the decision
evaluate(st, signal, holdings, balance) ==
    LET found == FindHolding(holdings, signal.stock_code)
        sold == sell_rules(st, signal, found)
    IN IF sold # None THEN sold ELSE buy_rule(st, signal, found, balance)

\* TradingSignal.signal_strength = min(mentions / 10, 1) * 0.5
\*                                 + ((avg_sentiment + 1) / 2) * 0.5
signal_strength(signal) ==
    LET avg == avg_sentiment(signal) IN
    Frac(20 * avg.den * Min(signal.mentions, 10) + avg.num + 100 * avg.den,
         400 * avg.den)

FracOver(f, g) == f.num * g.den > g.num * f.den

\* sorted(..., key=signal_strength, reverse=True): stable, so signals of equal
\* strength keep the order they had
RECURSIVE InsertByStrength(_, _)
InsertByStrength(x, sorted) ==
    IF sorted = << >> THEN << x >>
    ELSE IF FracOver(signal_strength(x), signal_strength(Head(sorted)))
    THEN << x >> \o sorted
    ELSE << Head(sorted) >> \o InsertByStrength(x, Tail(sorted))

RECURSIVE SortByStrength(_)
SortByStrength(signals) ==
    IF signals = << >> THEN << >>
    ELSE InsertByStrength(signals[Len(signals)],
                          SortByStrength(SubSeq(signals, 1, Len(signals) - 1)))

\* the loop of evaluate_batch over the sorted signals: the decisions collected
\* and the number of signals evaluated
RECURSIVE batch_loop(_, _, _, _, _, _, _)
batch_loop(st, sorted, holdings, balance, max_decisions, decisions, evaluated) ==
    IF sorted = << >> THEN [decisions |-> decisions, evaluated |-> evaluated]
    ELSE
    LET decision == evaluate(st, Head(sorted), holdings, balance)
        collected == IF decision # None THEN Append(decisions, decision[1])
                     ELSE decisions
    IN IF Len(collected) >= max_decisions
       THEN [decisions |-> collected, evaluated |-> evaluated + 1]
       ELSE batch_loop(st, Tail(sorted), holdings, balance, max_decisions,
                       collected, evaluated + 1)

\* evaluate_batch(signals, holdings, balance, max_decisions); signals is the
\* sequence of the dictionary's values
evaluate_batch(st, signals, holdings, balance, max_decisions) ==
    batch_loop(st, SortByStrength(signals), holdings, balance, max_decisions, << >>, 0)

\* the default of evaluate_batch's max_decisions
max_decisions == 5

\* (a slip: the reason matched without lower-casing it)
should_execute_sensitive(decision) ==
    IF Contains(decision.reason, <<"s","t","o","p","-","l","o","s","s">>)
    THEN TRUE
    ELSE IF Contains(decision.reason, <<"t","a","k","e","-","p","r","o","f","i","t">>)
    THEN TRUE
    ELSE decision.confidence >= 5

\* should_execute(decision)
should_execute(decision) ==
    IF Contains(lower(decision.reason), <<"s","t","o","p","-","l","o","s","s">>)
    THEN TRUE
    ELSE IF Contains(lower(decision.reason),
                     <<"t","a","k","e","-","p","r","o","f","i","t">>)
    THEN TRUE
    ELSE decision.confidence >= 5

----------------------------------------------------------------------------
(* The strategy called with signals, holdings and balances.                *)

\* configurations: the defaults; a sell threshold above the buy threshold; a
\* stop-loss rate meeting the take-profit rate
StrategyConfigs ==
    { DefaultStrategy,
      [DefaultStrategy EXCEPT !.sell_threshold = 50],
      [DefaultStrategy EXCEPT !.stop_loss_rate = 10] }

SignalMentions == {0, 3, 12}
SignalSentiments == {-50, -20, 40}
\* besides every pairing of the above: too few mentions for a BUY, and 4 and 5
\* mentions, either side of confidence 0.5
Signals ==
    { Signal("A", m, a * m) : m \in SignalMentions, a \in SignalSentiments }
        \cup { Signal("A", 2, 80), Signal("A", 4, 160), Signal("A", 5, 200),
               Signal("A", 4, -200), Signal("A", 5, -250) }

HeldQuantities == {0, 1, 7}
ProfitRates == {-6, -5, 0, 10}
PositionsOfA == { Position("A", q, 50000, r) : q \in HeldQuantities, r \in ProfitRates }
OtherPosition == Position("B", 5, 50000, -10)
\* holdings lists: one entry per stock code, as get_balance returns them
HoldingsLists ==
    { << >>, << OtherPosition >> }
        \cup { << h >> : h \in PositionsOfA }
        \cup { << OtherPosition, Position("A", 7, 50000, r) >> : r \in ProfitRates }

StrategyBalances ==
    { [cash |-> 1000000, total_eval_amount |-> Frac(1750000, 1)],
      [cash |-> 0, total_eval_amount |-> Frac(350000, 1)] }

\* price getters: the price of every stock (None when the lookup raises)
PriceFuncs == { [c \in {"A", "B"} |-> p] : p \in {Some(10000), Some(0), None} }

StrategyInit == strategy \in StrategyConfigs

SetPriceGetter ==
    /\ \E f \in PriceFuncs : strategy' = [strategy EXCEPT !.get_price_func = Some(f)]
    /\ last' = [op |-> "set_price_getter"]
    /\ UNCHANGED <<today, daily_stats, initial_portfolio_value, recorded_today,
                   dry_run, succeeded, pfVars, valid_calls, cycleVars, replayVars>>

Evaluate ==
    /\ \E signal \in Signals, holdings \in HoldingsLists, balance \in StrategyBalances :
        last' = [op |-> "evaluate", signal |-> signal, holdings |-> holdings,
                 balance |-> balance,
                 result |-> evaluate(strategy, signal, holdings, balance)]
    /\ UNCHANGED <<today, daily_stats, initial_portfolio_value, recorded_today,
                   dry_run, succeeded, pfVars, valid_calls, strategy, cycleVars, replayVars>>

\* the values of a signals dictionary, in its order
BatchSignals ==
    { << >>,
      << Signal("A", 12, 480) >>,
      << Signal("B", 3, 120), Signal("A", 12, 480) >>,
      << Signal("B", 3, 120), Signal("A", 12, -240) >>,
      << Signal("A", 3, 120), Signal("B", 3, 120) >> }

BatchHoldings == { << >>, << Position("A", 7, 50000, -6) >> }

MaxDecisionsValues == {0, 1, 2, max_decisions}

EvaluateBatch ==
    /\ \E signals \in BatchSignals, holdings \in BatchHoldings,
          m \in MaxDecisionsValues :
        LET balance == [cash |-> 1000000, total_eval_amount |-> Frac(1750000, 1)]
            b == evaluate_batch(strategy, signals, holdings, balance, m)
        IN last' = [op |-> "evaluate_batch", signals |-> signals,
                    holdings |-> holdings, balance |-> balance,
                    max_decisions |-> m, result |-> b.decisions,
                    evaluated |-> b.evaluated]
    /\ UNCHANGED <<today, daily_stats, initial_portfolio_value, recorded_today,
                   dry_run, succeeded, pfVars, valid_calls, strategy, cycleVars, replayVars>>

\* reasons a decision may carry: those evaluate writes, a tag in capitals, a
\* text without a tag, and "stop loss" written without the hyphen
DecisionReasons ==
    { StopLossReason, TakeProfitReason, NegativeReason, PositiveReason,
      <<"S","T","O","P","-","L","O","S","S">>,
      <<"T","A","K","E","-","P","R","O","F","I","T">>,
      <<"m","a","n","u","a","l">>,
      <<"s","t","o","p"," ","l","o","s","s">> }

DecisionConfidences == {0, 4, 5, 10}

ShouldExecute ==
    /\ \E reason \in DecisionReasons, confidence \in DecisionConfidences :
        LET decision == TradeDecision("sell", "A", 1, reason, confidence) IN
        last' = [op |-> "should_execute", decision |-> decision,
                 result |-> should_execute(decision)]
    /\ UNCHANGED <<today, daily_stats, initial_portfolio_value, recorded_today,
                   dry_run, succeeded, pfVars, valid_calls, strategy, cycleVars, replayVars>>

StrategyNext ==
    \/ SetPriceGetter
    \/ Evaluate
    \/ EvaluateBatch
    \/ ShouldExecute

StrategySpecInit ==
    /\ RiskInit
    /\ dry_run = FALSE
    /\ succeeded = 0
    /\ PfIdle
    /\ StrategyInit
    /\ cycles = [c \in CycleIds |-> CycleIdle]
    /\ running = 0
    /\ ReplayIdle
    /\ last = Idle

SpecStrategy == StrategySpecInit /\ [][StrategyNext]_vars

\* C6: whenever the holdings list holds a position in the signal's stock with
\* profit_rate <= stop_loss_rate, evaluate returns a SELL of exactly the held
\* quantity with confidence 1.0 and a reason that contains "stop-loss" once
\* lower-cased, whatever the signal's sentiment and mention count.
C6_StopLoss ==
    last.op = "evaluate" =>
        \A i \in DOMAIN last.holdings :
            LET h == last.holdings[i] IN
            (/\ h.stock_code = last.signal.stock_code
             /\ FracAtMost(h.profit_rate, strategy.stop_loss_rate)) =>
                /\ last.result # None
                /\ last.result[1].action = "sell"
                /\ last.result[1].stock_code = h.stock_code
                /\ last.result[1].quantity = h.quantity
                /\ last.result[1].confidence = 10
                /\ Contains(lower(last.result[1].reason),
                            <<"s","t","o","p","-","l","o","s","s">>)

\* a position exactly at the default stop-loss rate, listed second, is sold in
\* full although the news on the stock is positive and a price is available
C6_Witness ==
    /\ last.op = "evaluate"
    /\ strategy.stop_loss_rate = stop_loss_rate
    /\ strategy.get_price_func # None
    /\ strategy.get_price_func[1]["A"] = Some(10000)
    /\ last.balance.cash > 0
    /\ last.signal = Signal("A", 12, 480)
    /\ last.holdings = << OtherPosition, Position("A", 7, 50000, stop_loss_rate) >>
    /\ last.result # None
    /\ last.result[1].action = "sell"
    /\ last.result[1].quantity = 7

\* C7: evaluate returns at most one decision, by the priority stop-loss >
\* take-profit > negative-sentiment sell > buy > none.  Each sell rule's decision
\* (the negative-sentiment one being max(quantity // split_count, 1) shares at
\* confidence min(mentions/10, 1)) is returned exactly when its condition holds
\* and no higher rule's does; a BUY or no decision is returned only when none of
\* the three sell rules matches the held stock.
C7_Priority ==
    last.op = "evaluate" =>
        LET sig == last.signal
            found == FindHolding(last.holdings, sig.stock_code)
            held == found # None
            h == found[1]
            stopLoss == held /\ FracAtMost(h.profit_rate, strategy.stop_loss_rate)
            takeProfit == held /\ FracAtLeast(h.profit_rate, strategy.take_profit_rate)
            negative == held /\ FracLess(avg_sentiment(sig), strategy.sell_threshold)
            positive == /\ FracGreater(avg_sentiment(sig), strategy.buy_threshold)
                        /\ sig.mentions >= strategy.min_mentions
            r == last.result
        IN
        /\ r # None => r[1].action \in {"buy", "sell"} /\ r[1].stock_code = sig.stock_code
        /\ stopLoss =>
              /\ r # None
              /\ r[1].action = "sell"
              /\ r[1].quantity = h.quantity
              /\ r[1].reason = StopLossReason
        /\ (~stopLoss /\ takeProfit) =>
              /\ r # None
              /\ r[1].action = "sell"
              /\ r[1].quantity = Max(h.quantity \div 2, 1)
              /\ r[1].reason = TakeProfitReason
        /\ (~stopLoss /\ ~takeProfit /\ negative) =>
              /\ r # None
              /\ r[1].action = "sell"
              /\ r[1].quantity = Max(h.quantity \div strategy.split_count, 1)
              /\ r[1].confidence = Min(sig.mentions, 10)
              /\ r[1].reason = NegativeReason
        /\ (r # None /\ r[1].action = "buy") =>
              ~stopLoss /\ ~takeProfit /\ ~negative /\ positive
        /\ (r # None /\ r[1].action = "sell") => stopLoss \/ takeProfit \/ negative
        /\ r = None => ~stopLoss /\ ~takeProfit /\ ~negative

\* with the sell threshold above the buy threshold, news that meets both the
\* negative-sentiment rule and the buy rule on a held stock gives the partial
\* SELL of 7 // 3 = 2 shares, not a BUY
C7_Witness ==
    /\ last.op = "evaluate"
    /\ strategy.sell_threshold > strategy.buy_threshold
    /\ strategy.get_price_func # None
    /\ strategy.get_price_func[1]["A"] = Some(10000)
    /\ last.balance.cash > 0
    /\ last.signal = Signal("A", 12, 480)
    /\ last.holdings = << Position("A", 7, 50000, 0) >>
    /\ last.result # None
    /\ last.result[1].action = "sell"
    /\ last.result[1].quantity = 2
    /\ last.result[1].confidence = 10

\* C13: when the holdings list holds a position in the signal's stock with
\* profit_rate > stop_loss_rate and profit_rate >= take_profit_rate, evaluate
\* returns a SELL of exactly max(quantity // 2, 1) shares with confidence 0.8 and
\* a reason that contains "take-profit" once lower-cased, whatever the sentiment.
C13_TakeProfit ==
    last.op = "evaluate" =>
        \A i \in DOMAIN last.holdings :
            LET h == last.holdings[i] IN
            (/\ h.stock_code = last.signal.stock_code
             /\ FracGreater(h.profit_rate, strategy.stop_loss_rate)
             /\ FracAtLeast(h.profit_rate, strategy.take_profit_rate)) =>
                /\ last.result # None
                /\ last.result[1].action = "sell"
                /\ last.result[1].stock_code = h.stock_code
                /\ last.result[1].quantity = Max(h.quantity \div 2, 1)
                /\ last.result[1].confidence = 8
                /\ Contains(lower(last.result[1].reason),
                            <<"t","a","k","e","-","p","r","o","f","i","t">>)

\* a position of 7 shares exactly at the default take-profit rate is half sold
\* (3 shares) although the news on the stock is strongly negative
C13_Witness ==
    /\ last.op = "evaluate"
    /\ strategy.stop_loss_rate = stop_loss_rate
    /\ strategy.take_profit_rate = take_profit_rate
    /\ last.signal = Signal("A", 12, -600)
    /\ last.holdings = << OtherPosition, Position("A", 7, 50000, take_profit_rate) >>
    /\ last.result # None
    /\ last.result[1].action = "sell"
    /\ last.result[1].quantity = 3
    /\ last.result[1].confidence = 8

\* the price the configured getter returns for the stock: None when no getter
\* is configured or the getter raises
PriceFor(st, code) ==
    IF st.get_price_func = None THEN None ELSE st.get_price_func[1][code]

\* C14: evaluate returns a BUY only if avg_sentiment > buy_threshold, mentions >=
\* min_mentions and, for a stock already held, (quantity * current_price) /
\* total_eval_amount < max_holding_ratio; the price of the stock is then known
\* and positive, and the quantity is floor(cash * max_single_trade_ratio /
\* split_count / current_price), which is positive (3 for cash 1,000,000, ratio
\* 0.1, split 3, price 10,000).  So no BUY comes out when that quantity is 0 or
\* the price is missing or <= 0, and then nothing is returned unless a sell
\* rule matched.
C14_Buy ==
    last.op = "evaluate" =>
        LET sig == last.signal
            found == FindHolding(last.holdings, sig.stock_code)
            h == found[1]
            total == last.balance.total_eval_amount
            price == PriceFor(strategy, sig.stock_code)
            r == last.result
            noPrice == price = None \/ price[1] <= 0
            floorQty == (last.balance.cash * strategy.max_single_trade_ratio)
                            \div (100 * strategy.split_count * price[1])
        IN
        /\ (r # None /\ r[1].action = "buy") =>
              /\ FracGreater(avg_sentiment(sig), strategy.buy_threshold)
              /\ sig.mentions >= strategy.min_mentions
              /\ found # None =>
                    h.quantity * h.current_price.num * total.den * 100
                        < strategy.max_holding_ratio * total.num * h.current_price.den
              /\ ~noPrice
              /\ r[1].quantity = floorQty
              /\ r[1].quantity > 0
              /\ (/\ last.balance.cash = 1000000
                  /\ strategy.max_single_trade_ratio = 10
                  /\ strategy.split_count = 3
                  /\ price[1] = 10000) => r[1].quantity = 3
        /\ (noPrice \/ floorQty = 0) =>
              \/ r = None
              \/ r[1].action = "sell" /\ sell_rules(strategy, sig, found) = r

\* positive news on a held stock whose position is 50000 of 1750000, with cash
\* 1,000,000 and price 10,000: a BUY of 3 shares at confidence 1.0
C14_Witness ==
    /\ last.op = "evaluate"
    /\ strategy = [DefaultStrategy EXCEPT
                      !.get_price_func = Some([c \in {"A", "B"} |-> Some(10000)])]
    /\ last.signal = Signal("A", 12, 480)
    /\ last.holdings = << Position("A", 1, 50000, 0) >>
    /\ last.balance.cash = 1000000
    /\ last.result # None
    /\ last.result[1].action = "buy"
    /\ last.result[1].quantity = 3
    /\ last.result[1].confidence = 10

\* the non-none decisions of evaluate over a sequence of signals, in order
RECURSIVE DecisionsOf(_, _, _, _)
DecisionsOf(st, signals, holdings, balance) ==
    IF signals = << >> THEN << >>
    ELSE LET d == evaluate(st, Head(signals), holdings, balance) IN
         (IF d = None THEN << >> ELSE << d[1] >>)
             \o DecisionsOf(st, Tail(signals), holdings, balance)

\* C15 as stated: evaluate_batch evaluates the signals in descending
\* signal_strength order and returns, in that order, the non-none decisions up
\* to the point where max_decisions have been collected; the signals ranked
\* after that point are never evaluated, and for any max_decisions value the
\* returned list holds at most max_decisions decisions.
C15_Original ==
    last.op = "evaluate_batch" =>
        LET sorted == SortByStrength(last.signals)
            seen == SubSeq(sorted, 1, last.evaluated)
        IN
        /\ \A i \in 1..(Len(sorted) - 1) :
              ~FracOver(signal_strength(sorted[i + 1]), signal_strength(sorted[i]))
        /\ last.result = DecisionsOf(strategy, seen, last.holdings, last.balance)
        /\ last.evaluated < Len(sorted) => Len(last.result) >= last.max_decisions
        /\ Len(last.result) <= last.max_decisions

\* the reason carries the stop-loss or the take-profit tag, in any case
Tagged(reason) ==
    \/ Contains(lower(reason), <<"s","t","o","p","-","l","o","s","s">>)
    \/ Contains(lower(reason), <<"t","a","k","e","-","p","r","o","f","i","t">>)

\* C16: should_execute returns true for every decision whose reason contains
\* "stop-loss" or "take-profit" once lower-cased, whatever its confidence, and
\* otherwise returns true exactly when confidence >= 0.5.  So every decision
\* that evaluate's stop-loss or take-profit rule produces passes it, and a
\* sentiment-driven BUY or SELL passes it only when the signal has at least 5
\* mentions.
C16_ShouldExecute ==
    /\ last.op = "should_execute" =>
          last.result = (IF Tagged(last.decision.reason) THEN TRUE
                         ELSE last.decision.confidence >= 5)
    /\ (last.op = "evaluate" /\ last.result # None) =>
          LET found == FindHolding(last.holdings, last.signal.stock_code)
              exit == /\ found # None
                      /\ \/ FracAtMost(found[1].profit_rate, strategy.stop_loss_rate)
                         \/ FracAtLeast(found[1].profit_rate, strategy.take_profit_rate)
          IN
          /\ exit => should_execute(last.result[1])
          /\ ~exit => (should_execute(last.result[1]) <=> last.signal.mentions >= 5)

\* a decision tagged "STOP-LOSS" in capitals passes with confidence 0
C16_Witness ==
    /\ last.op = "should_execute"
    /\ last.decision.reason = <<"S","T","O","P","-","L","O","S","S">>
    /\ last.decision.confidence = 0
    /\ last.result

----------------------------------------------------------------------------
(* Analysis cycles on the event loop.                                      *)
(* Every job is the coroutine job_wrapper, run by the AsyncIOScheduler on  *)
(* the one event loop: a coroutine keeps the loop until it reaches an      *)
(* await that suspends it.  run_analysis_cycle awaits collect_news() only; *)
(* analyze_news, make_trading_decisions and execute_trades, with the       *)
(* broker's blocking calls, are plain calls.  A cycle is walked through    *)
(* the steps of execute_batch one at a time:                               *)
(*   idle -> collect_news -> (check -> validate -> submit -> record)*      *)

\* (a slip: the order submission awaited, so that the loop may switch there)
SuspensionPoints_awaited_order == {"collect_news", "submit"}

\* the steps a cycle is suspended at: await self.collect_news()
SuspensionPoints == {"collect_news"}

\* the event loop starts or resumes a coroutine only when it runs no other one,
\* and a running coroutine goes on until it suspends or ends
Scheduled(c) ==
    running = IF cycles[c].pc \in SuspensionPoints \cup {"idle"} THEN 0 ELSE c

\* cycle c moves to step pc with the given queue and order in hand
Moves(c, pc, queue, order) ==
    /\ cycles' = [cycles EXCEPT ![c] = [pc |-> pc, queue |-> queue, order |-> order]]
    /\ running' = IF pc \in SuspensionPoints \cup {"idle"} THEN 0 ELSE c

\* execute_batch goes on to the next decision, or the cycle ends
NextDecision(c) ==
    LET rest == Tail(cycles[c].queue) IN
    Moves(c, IF rest = << >> THEN "idle" ELSE "check", rest, None)

\* the executable decisions a cycle comes up with
CycleBatches ==
    { << >>,
      << Decision("buy", "A", 1, None) >>,
      << Decision("sell", "A", 1, None) >>,
      << Decision("buy", "A", 1, None), Decision("buy", "A", 1, None) >>,
      << Decision("sell", "A", 1, None), Decision("buy", "A", 1, None) >> }

\* what the broker does while one order is executed
CycleBrokers ==
    { BrokerUp,
      [BrokerUp EXCEPT !.order = None],
      [BrokerUp EXCEPT !.holding = HoldingRaised] }

\* a cron trigger fires (one instance per job): job_wrapper calls the handler,
\* which runs up to await self.collect_news()
Trigger(c) ==
    /\ cycles[c].pc = "idle"
    /\ Scheduled(c)
    /\ succeeded <= max_trades_per_day
    /\ Moves(c, "collect_news", << >>, None)
    /\ last' = [op |-> "cycle", step |-> "trigger", cycle |-> c]
    /\ UNCHANGED <<riskVars, execVars, pfVars, valid_calls, strategy, replayVars>>

\* collect_news() returns; the signals are analysed and the decisions made
NewsCollected(c) ==
    /\ cycles[c].pc = "collect_news"
    /\ Scheduled(c)
    /\ \E ds \in CycleBatches :
        Moves(c, IF ds = << >> THEN "idle" ELSE "check", ds, None)
    /\ last' = [op |-> "cycle", step |-> "decide", cycle |-> c]
    /\ UNCHANGED <<riskVars, execVars, pfVars, valid_calls, strategy, replayVars>>

\* execute_batch: can_trade() before the decision at the head of the queue
Check(c) ==
    /\ cycles[c].pc = "check"
    /\ Scheduled(c)
    /\ LET t == can_trade(RM, today) IN
        /\ SetRM(t.rm)
        /\ succeeded' = SucceededAfter(t.rm, 0)
        /\ IF t.ok
           THEN /\ Moves(c, "validate", cycles[c].queue, None)
                /\ last' = [op |-> "cycle", step |-> "check", cycle |-> c]
           ELSE /\ NextDecision(c)
                /\ last' = [op |-> "cycle", step |-> "blocked", cycle |-> c]
    /\ UNCHANGED <<today, recorded_today, dry_run, pfVars, valid_calls, strategy, replayVars>>

\* execute: the balance is fetched, the starting value set if there is none,
\* the order validated; a dry run ends here with a simulated result
Validate(c) ==
    /\ cycles[c].pc = "validate"
    /\ Scheduled(c)
    /\ \E balance \in {None, BrokerUp.balance} :
        IF balance = None
        THEN /\ NextDecision(c)
             /\ UNCHANGED <<daily_stats, initial_portfolio_value, succeeded>>
        ELSE
        LET rm1 == IF initial_portfolio_value = None
                   THEN set_initial_portfolio_value(RM, balance[1].total_eval_amount)
                   ELSE RM
            v == validate_order(rm1, today, Head(cycles[c].queue), balance[1])
        IN
        /\ SetRM(v.rm)
        /\ succeeded' = SucceededAfter(v.rm, IF v.ok /\ dry_run THEN 1 ELSE 0)
        /\ IF v.ok /\ ~dry_run
           THEN Moves(c, "submit", cycles[c].queue, None)
           ELSE NextDecision(c)
    /\ last' = [op |-> "cycle", step |-> "validate", cycle |-> c]
    /\ UNCHANGED <<today, recorded_today, dry_run, pfVars, valid_calls, strategy, replayVars>>

\* execute, live: the order goes to the broker (last.op = "submit" when
\* buy_market or sell_market is called)
Submit(c) ==
    /\ cycles[c].pc = "submit"
    /\ Scheduled(c)
    /\ \E broker \in CycleBrokers :
        LET o == place_order(Head(cycles[c].queue), broker) IN
        /\ IF o.placed
           THEN Moves(c, "record", cycles[c].queue,
                      Some([fill |-> o.fill, realized_pnl |-> o.realized_pnl]))
           ELSE NextDecision(c)
        /\ last' = [op |-> IF o.submitted THEN "submit" ELSE "cycle",
                    step |-> "submit", cycle |-> c]
    /\ UNCHANGED <<riskVars, execVars, pfVars, valid_calls, strategy, replayVars>>

\* execute, live: record_trade for the order the broker took
Record(c) ==
    /\ cycles[c].pc = "record"
    /\ Scheduled(c)
    /\ LET o == cycles[c].order[1]
           rm == record_trade(RM, today, Head(cycles[c].queue), o.fill, o.realized_pnl)
       IN /\ SetRM(rm)
          /\ succeeded' = SucceededAfter(rm, 1)
    /\ recorded_today' = recorded_today + 1
    /\ NextDecision(c)
    /\ last' = [op |-> "cycle", step |-> "record", cycle |-> c]
    /\ UNCHANGED <<today, dry_run, pfVars, valid_calls, strategy, replayVars>>

CycleNext ==
    \/ NextDay
    \/ ResetDaily
    \/ \E c \in CycleIds : Trigger(c)
    \/ \E c \in CycleIds : NewsCollected(c)
    \/ \E c \in CycleIds : Check(c)
    \/ \E c \in CycleIds : Validate(c)
    \/ \E c \in CycleIds : Submit(c)
    \/ \E c \in CycleIds : Record(c)

SpecCycle == ExecSpecInit /\ [][CycleNext]_vars

\* a cycle between the check of an order and the end of its recording
InOrder(c) == cycles[c].pc \in {"validate", "submit", "record"}

\* today's trade limit or loss limit is reached, by the manager's own figures
LimitReachedToday ==
    /\ daily_stats.date = today
    /\ \/ daily_stats.trade_count >= max_trades_per_day
       \/ /\ initial_portfolio_value # None
          /\ initial_portfolio_value[1] # 0
          /\ LossRateAtMost(daily_stats.realized_pnl, initial_portfolio_value[1],
                            daily_loss_limit)

\* C5: with two analysis cycles overlapping on one RiskManager, at most one
\* cycle at a time is between the check and the recording of an order,
\* trade_count never exceeds max_trades_per_day, and no order is submitted to
\* the broker in a state where the day's trade limit or loss limit is reached.
C5_NoInterleaving ==
    /\ [](/\ Cardinality({ c \in CycleIds : InOrder(c) }) <= 1
          /\ daily_stats.trade_count <= max_trades_per_day)
    /\ [][last'.op = "submit" => ~LimitReachedToday]_vars

\* two cycles overlap (cycle 2 is suspended in collect_news), the live trade
\* limit has been reached, and cycle 1's next order is refused at the check
C5_Witness ==
    /\ ~dry_run
    /\ last = [op |-> "cycle", step |-> "blocked", cycle |-> 1]
    /\ cycles[2].pc = "collect_news"
    /\ daily_stats.date = today
    /\ daily_stats.trade_count = max_trades_per_day

----------------------------------------------------------------------------
(* evaluate_batch, should_execute and the backtest replay                  *)

\* ((current_price / avg_price) - 1) * 100 if avg_price > 0 else 0, held like
\* every rate in hundredths
PnlRate(current_price, avg_price) ==
    IF avg_price.num > 0
    THEN Frac((current_price.num * avg_price.den - avg_price.num * current_price.den)
                  * 100 * 100,
              avg_price.num * current_price.den)
    ELSE Frac(0, 1)

\* the StockHolding to_account_balance builds for one code
SimulatedHolding(code, h, price) ==
    LET current_price == IF price = None THEN h.avg_price ELSE Frac(price[1], 1) IN
    [stock_code |-> code, quantity |-> h.qty, avg_buy_price |-> h.avg_price,
     current_price |-> current_price,
     profit_rate |-> PnlRate(current_price, h.avg_price)]

\* the holdings list of to_account_balance (the codes in some fixed order; the
\* dictionary's own order is that of first purchase)
RECURSIVE SimulatedHoldings(_, _, _)
SimulatedHoldings(h, codes, prices) ==
    IF codes = {} THEN << >>
    ELSE LET c == CHOOSE y \in codes : TRUE IN
         << SimulatedHolding(c, h[c], prices[c]) >>
             \o SimulatedHoldings(h, codes \ {c}, prices)

FracSum(f, g) == Frac(f.num * g.den + g.num * f.den, f.den * g.den)

RECURSIVE TotalStockEval(_)
TotalStockEval(holdings) ==
    IF holdings = << >> THEN Frac(0, 1)
    ELSE FracSum(Frac(Head(holdings).quantity * Head(holdings).current_price.num,
                      Head(holdings).current_price.den),
                 TotalStockEval(Tail(holdings)))

\* to_account_balance(price_getter), for initial_cash # 0 (the total return
\* rate divides by it)
to_account_balance(pf, prices) ==
    LET holdings == SimulatedHoldings(pf.holdings, DOMAIN pf.holdings, prices) IN
    [cash |-> pf.cash,
     total_eval_amount |-> FracSum(Frac(pf.cash, 1), TotalStockEval(holdings)),
     holdings |-> holdings]

\* BacktestEngine._get_price_for_strategy: price or 0.0
EnginePriceGetter(prices) ==
    [c \in DOMAIN prices |-> IF Truthy(prices[c]) THEN prices[c] ELSE Some(0)]

\* (a slip: the loop left at the first decision without a positive price)
RECURSIVE apply_decisions_break(_, _, _, _)
apply_decisions_break(pf, executable, prices, d) ==
    IF executable = << >> THEN pf
    ELSE
    LET decision == Head(executable)
        price == prices[decision.stock_code]
    IN IF price = None \/ price[1] <= 0 THEN pf
       ELSE apply_decisions_break(
                IF decision.action = "buy"
                THEN buy(pf, decision.stock_code, "name", decision.quantity, price[1], d).pf
                ELSE IF decision.action = "sell"
                THEN sell(pf, decision.stock_code, decision.quantity, price[1], d).pf
                ELSE pf,
                Tail(executable), prices, d)

\* _process_day, step 5: the executable decisions applied to the portfolio; a
\* decision without a positive price is skipped
RECURSIVE apply_decisions(_, _, _, _)
apply_decisions(pf, executable, prices, d) ==
    IF executable = << >> THEN pf
    ELSE
    LET decision == Head(executable)
        price == prices[decision.stock_code]
        after ==
            IF price = None \/ price[1] <= 0 THEN pf
            ELSE IF decision.action = "buy"
            THEN buy(pf, decision.stock_code, "name", decision.quantity, price[1], d).pf
            ELSE IF decision.action = "sell"
            THEN sell(pf, decision.stock_code, decision.quantity, price[1], d).pf
            ELSE pf
    IN apply_decisions(after, Tail(executable), prices, d)

\* _process_day(sim_date, articles), from the signals the articles give
process_day(pf, st, signals, prices, d) ==
    IF signals = << >>
    THEN [pf |-> pf, balance |-> None, decisions |-> << >>, executable |-> << >>]
    ELSE
    LET balance == to_account_balance(pf, prices)
        priced == [st EXCEPT !.get_price_func = Some(EnginePriceGetter(prices))]
        decisions == evaluate_batch(priced, signals, balance.holdings, balance,
                                    max_decisions).decisions
        executable == SelectSeq(decisions, should_execute)
    IN [pf |-> apply_decisions(pf, executable, prices, d),
        balance |-> Some(balance), decisions |-> decisions,
        executable |-> executable]

----------------------------------------------------------------------------
(* BacktestEngine.run, one day of its loop per step.                       *)

\* days a replay's start_date and end_date are taken from
MaxSimDays == 4

\* date.weekday() of day d: 0 is Monday; day 0 is a Friday
Weekday(d) == (d + 4) % 7

\* (a slip: a weekend day moved on by one day only)
TradingDay_once(d) == IF Weekday(d) >= 5 THEN d + 1 ELSE d

\* while d.weekday() >= 5: d += timedelta(days=1)
RECURSIVE TradingDay(_)
TradingDay(d) == IF Weekday(d) >= 5 THEN TradingDay(d + 1) ELSE d

\* effective_end of run
effective_end(end_date) == TradingDay(end_date)

\* articles_by_date.get(d, []): the loaded articles grouped under day d, in
\* the order load_articles gave them
articles_by_date(all_articles, d) ==
    SelectSeq(all_articles, LAMBDA a : TradingDay(a.published_at) = d)

\* one step of the loop of aggregate_signals: match_count mentions of one
\* stock at the article's sentiment score
AddMentions(signals, code, match_count, score) ==
    IF \E i \in DOMAIN signals : signals[i].stock_code = code
    THEN [i \in DOMAIN signals |->
            IF signals[i].stock_code = code
            THEN Signal(code, signals[i].mentions + match_count,
                        signals[i].sentiment_sum + score * match_count)
            ELSE signals[i]]
    ELSE Append(signals, Signal(code, match_count, score * match_count))

RECURSIVE AddAnalysis(_, _, _)
AddAnalysis(signals, related_stocks, score) ==
    IF related_stocks = << >> THEN signals
    ELSE AddAnalysis(AddMentions(signals, Head(related_stocks).stock_code,
                                 Head(related_stocks).match_count, score),
                     Tail(related_stocks), score)

RECURSIVE CollectSignals(_, _)
CollectSignals(signals, analyses) ==
    IF analyses = << >> THEN signals
    ELSE CollectSignals(AddAnalysis(signals, Head(analyses).related_stocks,
                                    Head(analyses).score),
                        Tail(analyses))

\* NewsAnalyzer.aggregate_signals over the analyses of the day's articles (an
\* article stands for its analysis: its sentiment score in hundredths and its
\* related stocks), sorted by signal strength
aggregate_signals(analyses) == SortByStrength(CollectSignals(<< >>, analyses))

ReplayCash == {6000}

Article(url, published_at, score, related_stocks) ==
    [url |-> url, published_at |-> published_at, score |-> score,
     related_stocks |-> related_stocks]

Related(code, match_count) == [stock_code |-> code, match_count |-> match_count]

\* what an archived article says: good news of A, good news of A and B, bad
\* news of A and B, or nothing about any stock
ArticleTexts ==
    { [score |-> 40, related_stocks |-> << Related("A", 12) >>],
      [score |-> 40, related_stocks |-> << Related("A", 12), Related("B", 6) >>],
      [score |-> -50, related_stocks |-> << Related("A", 12), Related("B", 6) >>],
      [score |-> 0, related_stocks |-> << >>] }

\* load_articles(start_date, end_date): no article, one, or two, published
\* within the range and sorted by publication time
Archives(start_date, end_date) ==
    LET days == start_date .. end_date IN
    { << >> }
    \cup { << Article(1, d, t.score, t.related_stocks) >> :
            d \in days, t \in ArticleTexts }
    \cup { << Article(1, d[1], t.score, t.related_stocks),
              Article(2, d[2], u.score, u.related_stocks) >> :
            d \in { e \in days \X days : e[1] <= e[2] },
            t \in ArticleTexts, u \in ArticleTexts }

\* get_price_on_date(code, day) for the two codes
ReplayPrices ==
    { [c \in PfCodes |-> IF c = "A" THEN p ELSE Some(100)] :
        p \in {None, Some(0), Some(94), Some(99), Some(100), Some(111)} }

\* BacktestEngine.__init__ and the start of run: the articles are loaded
ReplayInit ==
    /\ initial_cash \in ReplayCash
    /\ cash = initial_cash
    /\ pf_holdings = << >>
    /\ trade_history = << >>
    /\ daily_values = << >>
    /\ valid_calls = TRUE
    /\ \E start_date \in {0, 1} :
       \E end_date \in start_date .. MaxSimDays - 1 :
       \E all_articles \in Archives(start_date, end_date) :
        /\ sim_date = start_date
        /\ replay = [start_date |-> start_date, end_date |-> end_date,
                     all_articles |-> all_articles, processed |-> << >>]
    /\ price_data = [cache |-> << >>, market |-> << >>]

\* the loop of run is entered and has not ended: some article was loaded and
\* current <= effective_end
InLoop ==
    /\ replay.all_articles # << >>
    /\ sim_date <= effective_end(replay.end_date)

\* (a slip: no weekend handling, the articles taken on their publish date)
day_articles_unrolled(all_articles, d) ==
    Some(SelectSeq(all_articles, LAMBDA a : a.published_at = d))

\* the articles the body of the loop finds for day d: none at all on a
\* Saturday or Sunday, which the loop skips
day_articles(all_articles, d) ==
    IF Weekday(d) >= 5 THEN None ELSE Some(articles_by_date(all_articles, d))

\* a Saturday or Sunday: no market, nothing processed, nothing recorded
ReplayWeekend ==
    /\ InLoop
    /\ day_articles(replay.all_articles, sim_date) = None
    /\ sim_date' = sim_date + 1
    /\ last' = [op |-> "weekend", date |-> sim_date]
    /\ UNCHANGED <<riskVars, execVars, initial_cash, cash, pf_holdings, trade_history,
                   daily_values, valid_calls, strategy, cycleVars, replay, price_data>>

\* the articles given to _process_day on day d, added to the history
Processed(processed, articles, d) ==
    processed \o [i \in DOMAIN articles |-> [url |-> articles[i].url, date |-> d]]

\* a weekday: the day's articles are processed if there are any, then the
\* portfolio's value is recorded
ReplayDay ==
    /\ InLoop
    /\ day_articles(replay.all_articles, sim_date) # None
    /\ \E prices \in ReplayPrices :
        LET articles == day_articles(replay.all_articles, sim_date)[1]
            signals == aggregate_signals(articles)
            r == process_day(PF, strategy, signals, prices, sim_date)
        IN
        /\ SetPF(r.pf)
        /\ daily_values' = Append(daily_values,
                                  snapshot(r.pf, initial_cash, sim_date, prices))
        /\ replay' = [replay EXCEPT
                        !.processed = Processed(@, articles, sim_date)]
        /\ last' = [op |-> IF articles # << >> THEN "process_day" ELSE "no_articles",
                    date |-> sim_date, prices |-> prices,
                    signals |-> signals, balance |-> r.balance,
                    decisions |-> r.decisions, executable |-> r.executable,
                    before |-> PF]
    /\ sim_date' = sim_date + 1
    /\ UNCHANGED <<riskVars, execVars, initial_cash, valid_calls, strategy, cycleVars,
                   price_data>>

ReplayNext ==
    \/ ReplayWeekend
    \/ ReplayDay

ReplaySpecInit ==
    /\ RiskInit
    /\ dry_run = FALSE
    /\ succeeded = 0
    /\ ReplayInit
    /\ strategy = DefaultStrategy
    /\ cycles = [c \in CycleIds |-> CycleIdle]
    /\ running = 0
    /\ last = Idle

SpecReplay == ReplaySpecInit /\ [][ReplayNext]_vars

\* the day's price of a holding against its average buy price: at most, or at
\* least, (100 + pct) percent of it
PriceAtMostPct(h, pct) ==
    h.current_price.num * h.avg_buy_price.den * 100
        <= (100 + pct) * h.avg_buy_price.num * h.current_price.den
PriceAtLeastPct(h, pct) ==
    h.current_price.num * h.avg_buy_price.den * 100
        >= (100 + pct) * h.avg_buy_price.num * h.current_price.den

\* C11 as stated: in backtest replay, with the default thresholds, a position
\* is stop-loss sold only if the day's price is at least 5% below its average
\* buy price, and take-profit sold only if it is at least 10% above.
C11_Original ==
    last.op = "process_day" =>
        \A i \in DOMAIN last.decisions :
            LET d == last.decisions[i]
                h == FindHolding(last.balance[1].holdings, d.stock_code)[1]
            IN /\ d.reason = StopLossReason => PriceAtMostPct(h, stop_loss_rate)
               /\ d.reason = TakeProfitReason => PriceAtLeastPct(h, take_profit_rate)

----------------------------------------------------------------------------
(* The live path of one analysis cycle after the news is in:               *)
(* make_trading_decisions and execute_trades, which run without a break.   *)

\* StockHolding as get_balance builds it, with the profit rate the broker reports
LiveHolding(code, qty, avg, cur, rate) ==
    [stock_code |-> code, quantity |-> qty, avg_buy_price |-> avg,
     current_price |-> cur, profit_rate |-> rate]

\* the balance as the strategy's arithmetic reads it: the same numbers, the
\* floats among them held as fractions
StrategyView(balance) ==
    [cash |-> balance.cash,
     total_eval_amount |-> Frac(balance.total_eval_amount, 1),
     holdings |-> [i \in DOMAIN balance.holdings |->
                      [balance.holdings[i] EXCEPT !.current_price = Frac(@, 1)]]]

\* a broker that answers every call: 2 shares of "A" bought at 100000 and now
\* priced p, cash 3000000; the reported profit rate is (p / 100000 - 1)
LiveBroker(p) ==
    Broker(Some([cash |-> 3000000, total_eval_amount |-> 3000000 + 2 * p,
                 holdings |-> << LiveHolding("A", 2, 100000, p,
                                             Frac((p - 100000) * 100, 100000)) >>]),
           Held(StockHolding("A", 2, 100000, p)), Some(p), Some(Some(p)))

LiveBrokers == { LiveBroker(p) : p \in {40000, 100000, 112000} }

LiveCodes == {"A", "B"}

\* the signals of one cycle, in the dictionary's order
LiveSignals ==
    { << >>,
      << Signal("A", 12, 480) >>,
      << Signal("B", 12, 480) >>,
      << Signal("A", 12, -600) >> }

\* make_trading_decisions(signals): the executable decisions
make_trading_decisions(st, signals, broker) ==
    IF signals = << >> THEN << >>
    ELSE IF broker.balance = None THEN << >>
    ELSE
    LET balance == StrategyView(broker.balance[1])
        priced == [st EXCEPT !.get_price_func = Some([c \in LiveCodes |-> broker.price])]
        decisions == evaluate_batch(priced, signals, balance.holdings, balance,
                                    max_decisions).decisions
    IN SelectSeq(decisions, should_execute)

\* steps 3 and 4 of run_analysis_cycle
LiveCycle ==
    /\ running = 0
    /\ succeeded <= max_trades_per_day
    /\ \E signals \in LiveSignals, broker \in LiveBrokers :
        LET ds == make_trading_decisions(strategy, signals, broker)
            b == execute_batch(RM, today, dry_run, ds, [i \in DOMAIN ds |-> broker])
        IN
        /\ SetRM(b.rm)
        /\ succeeded' = SucceededAfter(b.rm,
                            Cardinality({ i \in DOMAIN b.results : b.results[i].success }))
        /\ last' = [op |-> "cycle_trades", balance |-> broker.balance[1],
                    decisions |-> ds, results |-> b.results]
    /\ UNCHANGED <<today, recorded_today, dry_run, nonCore>>

LiveNext ==
    \/ NextDay
    \/ ResetDaily
    \/ LiveCycle

SpecLive == ExecSpecInit /\ [][LiveNext]_vars

\* a SELL made by the stop-loss or the take-profit rule
IsExit(d) ==
    /\ d.action = "sell"
    /\ \/ Contains(lower(d.reason), <<"s","t","o","p","-","l","o","s","s">>)
       \/ Contains(lower(d.reason), <<"t","a","k","e","-","p","r","o","f","i","t">>)

\* the balance holds at least the quantity the decision sells
HeldEnough(balance, d) ==
    LET found == FindHolding(balance.holdings, d.stock_code) IN
    found # None /\ found[1].quantity >= d.quantity

\* C12 as stated: in the live path every stop-loss or take-profit SELL that
\* passed should_execute, for a position held in sufficient quantity, is
\* submitted to the broker and never fails for the daily trade limit or the
\* daily loss limit.
C12_Original ==
    (last.op = "cycle_trades" /\ ~dry_run) =>
        \A i \in DOMAIN last.decisions :
            (/\ IsExit(last.decisions[i])
             /\ should_execute(last.decisions[i])
             /\ HeldEnough(last.balance, last.decisions[i])) =>
                /\ last.results[i].submitted
                /\ last.results[i].error_message \notin BlockReasons

----------------------------------------------------------------------------
(* validate_order, the daily accounting and the date rollover of the       *)
(* RiskManager.                                                            *)

\* quantity * target_price, or quantity * the placeholder when the decision has
\* no target price (None, or 0, which the code reads as none)
RequiredAmount(decision) ==
    IF decision.target_price # None /\ decision.target_price[1] # 0
    THEN decision.quantity * decision.target_price[1]
    ELSE decision.quantity * 100000

\* C17: validate_order first applies can_trade() and returns its rejection when
\* trading is blocked; otherwise a BUY is rejected when quantity * target_price
\* (quantity * the placeholder unit price without a target price) exceeds
\* balance.cash or when that amount / total_eval_amount > max_single_trade_ratio;
\* a SELL is rejected when the balance has no holding of the stock or the
\* quantity exceeds the held quantity; every other order is accepted.
C17_ValidateOrder ==
    [][last'.op = "validate_order" =>
        LET c == can_trade(RM, today)
            d == last'.decision
            balance == last'.balance
            held == { i \in DOMAIN balance.holdings :
                        balance.holdings[i].stock_code = d.stock_code }
            rejected ==
                \/ /\ d.action = "buy"
                   /\ \/ RequiredAmount(d) > balance.cash
                      \/ RequiredAmount(d) * 100
                           > max_single_trade_ratio * balance.total_eval_amount
                \/ /\ d.action = "sell"
                   /\ \/ held = {}
                      \/ \A i \in held : d.quantity > balance.holdings[i].quantity
        IN IF ~c.ok
           THEN ~last'.ok /\ last'.reason = c.reason
           ELSE last'.ok = ~rejected]_vars

\* with trading open and cash ample, a BUY of 2 at the placeholder price is
\* exactly 10% of the portfolio and is accepted
C17_Witness ==
    /\ last.op = "validate_order"
    /\ last.decision = Decision("buy", "A", 2, None)
    /\ last.balance.cash = 1000000
    /\ daily_stats.trade_count < max_trades_per_day
    /\ last.ok

\* the stats a gatekeeping call works on: fresh ones when the stored date is
\* not today's
StatsOfToday == IF daily_stats.date # today THEN DailyStats(today) ELSE daily_stats

\* C18: each record_trade call appends exactly one trade record and increments
\* trade_count and exactly one of buy_count and sell_count, adding quantity *
\* price to the matching total, so that trade_count = buy_count + sell_count =
\* the number of trade records in every reachable state; the daily realized_pnl
\* changes only by a value the caller supplied with a record_trade call (or
\* returns to 0 on a reset) and is never derived by the manager.
C18_Accounting ==
    /\ [](/\ daily_stats.trade_count = daily_stats.buy_count + daily_stats.sell_count
          /\ daily_stats.trade_count = Len(daily_stats.trades))
    /\ [][last'.op = "record_trade" =>
            LET before == StatsOfToday
                after == daily_stats'
                record == after.trades[Len(after.trades)]
                amount == record.quantity * record.price
            IN
            /\ after.trades = Append(before.trades, record)
            /\ after.trade_count = before.trade_count + 1
            /\ \/ /\ after.buy_count = before.buy_count + 1
                  /\ after.sell_count = before.sell_count
                  /\ after.total_bought = before.total_bought + amount
                  /\ after.total_sold = before.total_sold
               \/ /\ after.sell_count = before.sell_count + 1
                  /\ after.buy_count = before.buy_count
                  /\ after.total_sold = before.total_sold + amount
                  /\ after.total_bought = before.total_bought
            /\ \/ after.realized_pnl = before.realized_pnl
               \/ /\ record.realized_pnl # None
                  /\ after.realized_pnl = before.realized_pnl + record.realized_pnl[1]]_vars
    /\ [][last'.op # "record_trade" =>
            \/ daily_stats'.realized_pnl = daily_stats.realized_pnl
            \/ daily_stats' = DailyStats(today)]_vars

\* a SELL of 2 at price 10 recorded without a realized P&L after a loss of 3:
\* total_sold grows by 20 and the realized P&L stays -3
C18_Witness ==
    /\ last.op = "record_trade"
    /\ daily_stats.trade_count = 2
    /\ daily_stats.sell_count = 2
    /\ daily_stats.total_sold = 30
    /\ daily_stats.realized_pnl = -3
    /\ daily_stats.trades[2].realized_pnl = None

Gatekeeping == {"can_trade", "validate_order", "record_trade", "get_daily_stats"}

\* C19: every gatekeeping call (can_trade, validate_order, record_trade,
\* get_daily_stats) first compares the stored stats date with the current date
\* and, if they differ, resets all counters, the trade list, the realized P&L
\* and initial_portfolio_value before it does anything else, so trades recorded
\* on an earlier date never count against the current day's limits; and without
\* a date change or an explicit reset_daily the counters are never reset.
C19_Rollover ==
    /\ [][(last'.op \in Gatekeeping /\ daily_stats.date # today) =>
            /\ initial_portfolio_value' = None
            /\ daily_stats'.date = today
            /\ IF last'.op = "record_trade"
               THEN /\ Len(daily_stats'.trades) = 1
                    /\ daily_stats'.trade_count = 1
                    /\ daily_stats'.realized_pnl
                          \in {0} \cup { x[1] : x \in {daily_stats'.trades[1].realized_pnl}
                                                       \ {None} }
               ELSE daily_stats' = DailyStats(today)
            /\ last'.op = "can_trade" => last'.ok
            /\ last'.op = "validate_order" => last'.reason \notin BlockReasons
            /\ last'.op = "get_daily_stats" =>
                  /\ last'.stats.trade_count = 0
                  /\ last'.stats.remaining_trades = max_trades_per_day]_vars
    /\ [][(daily_stats.date = today /\ last'.op # "reset_daily") =>
            /\ daily_stats'.date = daily_stats.date
            /\ daily_stats'.trade_count >= daily_stats.trade_count
            /\ daily_stats'.buy_count >= daily_stats.buy_count
            /\ daily_stats'.sell_count >= daily_stats.sell_count
            /\ daily_stats'.total_bought >= daily_stats.total_bought
            /\ daily_stats'.total_sold >= daily_stats.total_sold
            /\ Len(daily_stats'.trades) >= Len(daily_stats.trades)
            /\ SubSeq(daily_stats'.trades, 1, Len(daily_stats.trades)) = daily_stats.trades
            /\ initial_portfolio_value # None => initial_portfolio_value' # None]_vars

\* on the second day validate_order has cleared the stats of the first and the
\* initial value, and accepts a SELL
C19_Witness ==
    /\ last.op = "validate_order"
    /\ last.ok
    /\ today = 1
    /\ daily_stats = DailyStats(1)
    /\ initial_portfolio_value = None

----------------------------------------------------------------------------
(* The initial portfolio value as execute sets it.                         *)

\* the total_eval_amount of a balance the broker may return
FetchedTotals ==
    { b.balance[1].total_eval_amount : b \in { x \in Brokers : x.balance # None } }

\* C20 as stated: within one trading day initial_portfolio_value is set exactly
\* once, by the first execute of that day from the total_eval_amount of the
\* balance it fetched, and later executes of the day never overwrite it; after
\* reset_daily or a date rollover the next execute sets it afresh, so every
\* execute that reaches validation leaves it set.
C20_Original ==
    [][(last'.op = "execute" /\ last'.result.error_message # "Failed to get balance") =>
        /\ initial_portfolio_value' # None
        /\ (initial_portfolio_value # None /\ daily_stats.date = today) =>
              initial_portfolio_value' = initial_portfolio_value
        /\ (initial_portfolio_value = None \/ daily_stats.date # today) =>
              \E v \in FetchedTotals : initial_portfolio_value' = Some(v)]_vars

----------------------------------------------------------------------------
(* What execute returns on a rejection, on a fault and in a dry run.       *)

\* validate_order as execute calls it for the decision and the balance the
\* broker returned, in the state before the call
ValidationOf(decision, calls) ==
    validate_order(IF initial_portfolio_value = None
                   THEN set_initial_portfolio_value(RM, calls.balance[1].total_eval_amount)
                   ELSE RM,
                   today, decision, calls.balance[1])

\* C21: when validate_order rejects a decision, execute returns a failed result
\* whose error_message is the rejection reason, submits no order to the broker
\* and records no trade (the call itself always returns a result), in live and
\* in dry-run mode.
C21_Rejection ==
    [][(last'.op = "execute" /\ last'.calls.balance # None) =>
        LET r == last'.result
            v == ValidationOf(r.decision, last'.calls)
        IN ~v.ok =>
            /\ ~r.success
            /\ r.error_message = v.reason
            /\ ~r.submitted
            /\ r.order_id = None
            /\ daily_stats'.trades = StatsOfToday.trades
            /\ daily_stats'.trade_count = StatsOfToday.trade_count]_vars

\* in a dry run a BUY of 3 at the placeholder price, 15% of the portfolio, comes
\* back failed with the single-trade reason and nothing submitted
C21_Witness ==
    /\ last.op = "execute"
    /\ dry_run
    /\ last.result.decision = Decision("buy", "A", 3, None)
    /\ ~last.result.success
    /\ last.result.error_message = "Trade exceeds single trade limit"
    /\ ~last.result.submitted

\* C22: execute always returns a result: a failure of the balance fetch, of the
\* holding or price lookup, or of the broker's buy or sell call becomes a failed
\* ExecutionResult carrying the message of that failure, and no trade is
\* recorded for an order whose submission failed.
C22_Faults ==
    [][last'.op = "execute" =>
        LET b == last'.calls
            r == last'.result
            lookupFails == \/ b.holding # None /\ b.holding[1].kind = "raise"
                           \/ b.price # None /\ b.price[1] = None
            noTrade == daily_stats' \in {daily_stats, StatsOfToday}
        IN
        /\ r.success \in BOOLEAN
        /\ b.balance = None =>
              /\ ~r.success /\ r.error_message = "Failed to get balance"
              /\ ~r.submitted
              /\ daily_stats' = daily_stats
        /\ lookupFails =>
              /\ ~r.success /\ r.error_message = "Unexpected error"
              /\ ~r.submitted /\ noTrade
        /\ (b.order # None /\ b.order[1] = None) =>
              /\ ~r.success /\ r.error_message = "Order failed"
              /\ r.submitted /\ ~r.placed /\ noTrade
        /\ ~r.success => noTrade]_vars

\* a live BUY whose buy_market call raised: a failed result with the order
\* error and no trade on the books
C22_Witness ==
    /\ last.op = "execute"
    /\ ~dry_run
    /\ last.calls.order = Some(None)
    /\ last.result.decision.action = "buy"
    /\ last.result.submitted
    /\ ~last.result.success
    /\ last.result.error_message = "Order failed"
    /\ daily_stats.trade_count = 0

\* C23: in dry-run mode execute never calls buy_market or sell_market, for any
\* decision and any sequence of calls; a validated decision yields a successful
\* result whose fill price is the decision's target_price and whose order id is
\* synthetic.
C23_DryRun ==
    [][(last'.op = "execute" /\ dry_run) =>
        LET r == last'.result IN
        /\ ~r.submitted /\ ~r.placed
        /\ last'.calls.order = None
        /\ (last'.calls.balance # None /\ ValidationOf(r.decision, last'.calls).ok) =>
              /\ r.success
              /\ r.price = r.decision.target_price
              /\ r.order_id = Some("DRY")]_vars

\* a dry-run BUY with target price 150000 succeeds, filled at 150000 under a
\* made-up order id, with nothing sent to the broker
C23_Witness ==
    /\ last.op = "execute"
    /\ dry_run
    /\ last.result.decision = Decision("buy", "A", 1, Some(150000))
    /\ last.result.success
    /\ last.result.price = Some(150000)
    /\ last.result.order_id = Some("DRY")
    /\ ~last.result.submitted

----------------------------------------------------------------------------
(* The replay loop: which day an article is processed on, and the days     *)
(* trades and snapshots are dated.                                         *)

\* the replay days on which the article with this url was given to _process_day
ProcessedOn(url) ==
    { replay.processed[i].date :
        i \in { j \in DOMAIN replay.processed : replay.processed[j].url = url } }

\* how many times the article with this url was given to _process_day
TimesProcessed(url) ==
    Cardinality({ j \in DOMAIN replay.processed : replay.processed[j].url = url })

\* its publish date if that is Monday to Friday, else the first Monday after
ExpectedDay(published_at) ==
    IF Weekday(published_at) < 5 THEN published_at
    ELSE CHOOSE d \in published_at + 1 .. published_at + 2 : Weekday(d) = 0

\* C24: every loaded article is processed on exactly one replay day: its
\* publish date if that is Monday to Friday, else the first Monday after it,
\* never earlier than its publish date; the loop runs to the end date moved
\* on by the same rule, so that once it has passed the article's day the
\* article has been processed once, and by its end every article has.
C24_OneReplayDay ==
    \A i \in DOMAIN replay.all_articles :
        LET a == replay.all_articles[i]
            day == ExpectedDay(a.published_at)
        IN /\ day >= a.published_at
           /\ day <= effective_end(replay.end_date)
           /\ effective_end(replay.end_date) = ExpectedDay(replay.end_date)
           /\ ProcessedOn(a.url) \subseteq {day}
           /\ TimesProcessed(a.url) = (IF sim_date > day THEN 1 ELSE 0)

\* the run has ended; an article published on a Saturday, another on the
\* Sunday, both processed on the Monday after
C24_Witness ==
    /\ sim_date > effective_end(replay.end_date)
    /\ Len(replay.all_articles) = 2
    /\ Weekday(replay.all_articles[1].published_at) = 5
    /\ Weekday(replay.all_articles[2].published_at) = 6
    /\ \A i \in 1 .. 2 :
        LET a == replay.all_articles[i] IN
        /\ ProcessedOn(a.url) = {a.published_at + 3 - i}
        /\ Weekday(a.published_at + 3 - i) = 0

\* C25: no record of the trade history has a Saturday or a Sunday as its
\* trade date, even when articles were published on those days.
C25_NoWeekendTrade ==
    \A i \in DOMAIN trade_history : Weekday(trade_history[i].date) < 5

\* an article published on a Saturday led to a trade, dated the Monday after
C25_Witness ==
    /\ \E i \in DOMAIN replay.all_articles :
        /\ Weekday(replay.all_articles[i].published_at) = 5
        /\ \E j \in DOMAIN trade_history :
            trade_history[j].date = replay.all_articles[i].published_at + 2
    /\ \A i \in DOMAIN replay.all_articles :
        Weekday(replay.all_articles[i].published_at) >= 5

\* the days start_date .. effective end, in order
RECURSIVE DaysFrom(_, _)
DaysFrom(d, end) == IF d > end THEN << >> ELSE << d >> \o DaysFrom(d + 1, end)

\* C26 as stated: run appends exactly one daily snapshot, in increasing date
\* order, for every calendar day from start_date to the extended end date
\* inclusive, weekends and days without articles included: once the loop has
\* ended, the snapshot dates are those days.
C26_Original ==
    (replay.all_articles # << >> /\ sim_date > effective_end(replay.end_date)) =>
        [i \in DOMAIN daily_values |-> daily_values[i].date]
            = DaysFrom(replay.start_date, effective_end(replay.end_date))

\* the decision has a close price above 0 on its day
HasPrice(decision, prices) ==
    prices[decision.stock_code] # None /\ prices[decision.stock_code][1] > 0

\* the portfolio after these decisions, each bought or sold at its day's price
RECURSIVE Applied(_, _, _, _)
Applied(pf, decisions, prices, d) ==
    IF decisions = << >> THEN pf
    ELSE LET x == Head(decisions)
             price == prices[x.stock_code][1]
             after == IF x.action = "buy"
                      THEN buy(pf, x.stock_code, "name", x.quantity, price, d).pf
                      ELSE sell(pf, x.stock_code, x.quantity, price, d).pf
         IN Applied(after, Tail(decisions), prices, d)

\* C27: in backtest replay an executable decision whose close price for the
\* day is missing or <= 0 is skipped without changing the portfolio, the other
\* executable decisions of the day are applied in order, and the day's
\* snapshot is recorded.
C27_SkipUnpriced ==
    last.op = "process_day" =>
        /\ PF = Applied(last.before,
                        SelectSeq(last.executable,
                                  LAMBDA x : HasPrice(x, last.prices)),
                        last.prices, last.date)
        /\ daily_values # << >>
        /\ daily_values[Len(daily_values)]
              = snapshot(PF, initial_cash, last.date, last.prices)

\* a day with two executable decisions: the first has no price above 0 and is
\* skipped, the second is applied and recorded in the trade history
C27_Witness ==
    /\ last.op = "process_day"
    /\ Len(last.executable) = 2
    /\ ~HasPrice(last.executable[1], last.prices)
    /\ HasPrice(last.executable[2], last.prices)
    /\ Len(trade_history) = Len(last.before.trade_history) + 1
    /\ trade_history[Len(trade_history)].stock_code = last.executable[2].stock_code
    /\ daily_values[Len(daily_values)].date = last.date

----------------------------------------------------------------------------
(* BacktestReport: the metrics computed from a portfolio's snapshots and   *)
(* trade history. Floats are held as exact fractions.                      *)

LCM(a, b) == (a \div GCD(a, b)) * b
FracAdd(f, g) ==
    LET l == LCM(f.den, g.den) IN
    Frac(f.num * (l \div f.den) + g.num * (l \div g.den), l)
FracDiff(f, g) ==
    LET l == LCM(f.den, g.den) IN
    Frac(f.num * (l \div f.den) - g.num * (l \div g.den), l)
FracProd(f, g) ==
    LET a == GCD(Abs(f.num), g.den)
        b == GCD(Abs(g.num), f.den)
    IN IF f.num = 0 \/ g.num = 0 THEN Frac(0, 1)
       ELSE Frac((f.num \div a) * (g.num \div b), (f.den \div b) * (g.den \div a))
FracBelow(f, g) == f.num * g.den < g.num * f.den

RECURSIVE FracTotal(_)
FracTotal(fs) == IF fs = << >> THEN Frac(0, 1) ELSE FracAdd(Head(fs), FracTotal(Tail(fs)))

\* the loop of max_drawdown_pct; a peak of 0 makes the division raise (None)
RECURSIVE drawdown_loop(_, _, _)
drawdown_loop(snapshots, peak, max_dd) ==
    IF snapshots = << >> THEN Some(max_dd)
    ELSE
    LET value == Head(snapshots).total_value
        peak1 == IF value > peak THEN value ELSE peak
    IN IF peak1 = 0 THEN None
       ELSE LET dd == IF peak1 > 0 THEN Frac((value - peak1) * 100, peak1)
                                   ELSE Frac((peak1 - value) * 100, -peak1)
            IN drawdown_loop(Tail(snapshots), peak1,
                             IF FracBelow(dd, max_dd) THEN dd ELSE max_dd)

\* (a slip: the running peak starts at the first snapshot, not at initial cash)
max_drawdown_pct_firstpeak(initial, snapshots) ==
    IF snapshots = << >> THEN Some(Frac(0, 1))
    ELSE drawdown_loop(snapshots, Head(snapshots).total_value, Frac(0, 1))

\* BacktestReport.max_drawdown_pct, in percent
max_drawdown_pct(initial, snapshots) ==
    IF snapshots = << >> THEN Some(Frac(0, 1))
    ELSE drawdown_loop(snapshots, initial, Frac(0, 1))

\* sum(p * q for p, q in buys) / sum(q for _, q in buys), for buys of
\* positive quantities
RECURSIVE BuysCost(_)
BuysCost(buys) == IF buys = << >> THEN 0
                  ELSE Head(buys)[1] * Head(buys)[2] + BuysCost(Tail(buys))
RECURSIVE BuysQuantity(_)
BuysQuantity(buys) == IF buys = << >> THEN 0 ELSE Head(buys)[2] + BuysQuantity(Tail(buys))
avg_buy(buys) == Frac(BuysCost(buys), BuysQuantity(buys))

\* (a slip: a sell at the average price counted as a win)
IsWin_lenient(price, buys) ==
    buys # << >> /\ price * avg_buy(buys).den >= avg_buy(buys).num

\* trade.price > avg_buy, when buys were recorded for the stock
IsWin(price, buys) ==
    buys # << >> /\ price * avg_buy(buys).den > avg_buy(buys).num

\* the loop of win_rate over the trade history: buy_prices maps a stock code
\* to the (price, quantity) pairs bought so far
RECURSIVE win_loop(_, _, _)
win_loop(trades, buy_prices, wins) ==
    IF trades = << >> THEN wins
    ELSE
    LET trade == Head(trades) IN
    IF trade.action = "buy"
    THEN win_loop(Tail(trades),
                  [buy_prices EXCEPT ![trade.stock_code] =
                      Append(@, << trade.price, trade.quantity >>)],
                  wins)
    ELSE IF trade.action = "sell"
    THEN win_loop(Tail(trades), buy_prices,
                  IF IsWin(trade.price, buy_prices[trade.stock_code])
                  THEN wins + 1 ELSE wins)
    ELSE win_loop(Tail(trades), buy_prices, wins)

\* BacktestReport.win_rate, in percent
win_rate(trades) ==
    LET sells == SelectSeq(trades, LAMBDA t : t.action = "sell") IN
    IF sells = << >> THEN Frac(0, 1)
    ELSE Frac(win_loop(trades, [c \in PfCodes |-> << >>], 0) * 100, Len(sells))

\* daily_returns of sharpe_ratio: curr / prev - 1 for consecutive snapshots
\* with prev > 0
RECURSIVE daily_returns(_)
daily_returns(snapshots) ==
    IF Len(snapshots) < 2 THEN << >>
    ELSE LET prev == snapshots[1].total_value
             curr == snapshots[2].total_value
         IN (IF prev > 0 THEN << Frac(curr - prev, prev) >> ELSE << >>)
                \o daily_returns(Tail(snapshots))

\* statistics.mean
mean(xs) == FracProd(FracTotal(xs), Frac(1, Len(xs)))

\* the square of statistics.stdev: the sample variance, for two values or more
variance(xs) ==
    FracProd(FracTotal([i \in DOMAIN xs |->
                            FracProd(FracDiff(xs[i], mean(xs)), FracDiff(xs[i], mean(xs)))]),
             Frac(1, Len(xs) - 1))

\* a Sharpe ratio (annual_return - risk_free) / (std * 252 ** 0.5), held as
\* its numerator `excess` and the square of std
Sharpe(excess, std2) == [excess |-> excess, std_squared |-> std2]

\* return 0.0
SharpeZero == Sharpe(Frac(0, 1), Frac(1, 1))

\* std squared: statistics.stdev(daily_returns) if len(daily_returns) > 1
\* else 0.001
std_squared(returns) ==
    IF Len(returns) > 1 THEN variance(returns) ELSE Frac(1, 1000000)

\* BacktestReport.sharpe_ratio: 252 trading days, risk-free rate 0.03
sharpe_ratio(snapshots) ==
    IF Len(snapshots) < 2 THEN SharpeZero
    ELSE
    LET returns == daily_returns(snapshots) IN
    IF returns = << >> THEN SharpeZero
    ELSE IF std_squared(returns).num = 0 THEN SharpeZero
    ELSE Sharpe(FracDiff(FracProd(mean(returns), Frac(252, 1)), Frac(3, 100)),
                std_squared(returns))

\* trades and snapshots a report is made of
MaxReportTrades == 3
MaxReportDays == 3

ReportCash == {50, 100}

Trade(action, code, quantity, price) ==
    [action |-> action, stock_code |-> code, quantity |-> quantity, price |-> price]

ReportTrades ==
    { Trade("buy", "A", 5, 10), Trade("buy", "A", 2, 20), Trade("sell", "A", 1, 10),
      Trade("sell", "A", 1, 15), Trade("buy", "B", 1, 10), Trade("sell", "B", 1, 15) }

\* the portfolio after one more call of buy or sell
AfterTrade(pf, t) ==
    IF t.action = "buy"
    THEN buy(pf, t.stock_code, "name", t.quantity, t.price, 0).pf
    ELSE sell(pf, t.stock_code, t.quantity, t.price, 0).pf

\* the portfolios n calls of buy and sell can lead to
RECURSIVE PortfoliosAfter(_, _)
PortfoliosAfter(initial, n) ==
    IF n = 0 THEN { [cash |-> initial, holdings |-> << >>, trade_history |-> << >>] }
    ELSE LET before == PortfoliosAfter(initial, n - 1) IN
         before \cup { AfterTrade(pf, t) : pf \in before, t \in ReportTrades }

\* the daily price of A over the days recorded; B has none
ReportPrices ==
    { [c \in PfCodes |-> IF c = "A" THEN p ELSE None] :
        p \in {None, Some(5), Some(10), Some(20)} }

PriceSeries(n) == UNION { [1 .. k -> ReportPrices] : k \in 0 .. n }

\* record_daily_value called once a day on a portfolio that no longer trades
Snapshots(pf, initial, series) ==
    [i \in DOMAIN series |-> snapshot(pf, initial, i, series[i])]

\* a report of a portfolio after its trades and snapshots: many trades and at
\* most one snapshot, or at most one trade and many snapshots
ReportInit ==
    /\ initial_cash \in ReportCash
    /\ valid_calls = TRUE
    /\ \E pf \in PortfoliosAfter(initial_cash, MaxReportTrades) :
       \E series \in PriceSeries(MaxReportDays) :
        /\ Len(pf.trade_history) <= 1 \/ Len(series) <= 1
        /\ cash = pf.cash
        /\ pf_holdings = pf.holdings
        /\ trade_history = pf.trade_history
        /\ daily_values = Snapshots(pf, initial_cash, series)

MaxDrawdownPct ==
    /\ last' = [op |-> "max_drawdown_pct",
                result |-> max_drawdown_pct(initial_cash, daily_values)]
    /\ UNCHANGED <<riskVars, execVars, pfVars, valid_calls, strategy, cycleVars,
                   replayVars>>

WinRate ==
    /\ last' = [op |-> "win_rate", result |-> win_rate(trade_history)]
    /\ UNCHANGED <<riskVars, execVars, pfVars, valid_calls, strategy, cycleVars,
                   replayVars>>

SharpeRatio ==
    /\ last' = [op |-> "sharpe_ratio", result |-> sharpe_ratio(daily_values)]
    /\ UNCHANGED <<riskVars, execVars, pfVars, valid_calls, strategy, cycleVars,
                   replayVars>>

ReportNext ==
    \/ MaxDrawdownPct
    \/ WinRate
    \/ SharpeRatio

ReportSpecInit ==
    /\ RiskInit
    /\ dry_run = FALSE
    /\ succeeded = 0
    /\ ReportInit
    /\ LiveIdle
    /\ last = Idle

SpecReport == ReportSpecInit /\ [][ReportNext]_vars

TotalValues == [i \in DOMAIN daily_values |-> daily_values[i].total_value]

NonDecreasing(values) ==
    \A i \in DOMAIN values : \A j \in DOMAIN values : i <= j => values[i] <= values[j]

\* C28 as stated: max_drawdown_pct is <= 0 for every series of daily
\* snapshots and every initial cash, and equals 0 whenever the series of
\* snapshot total values is monotonically non-decreasing.
C28_Original ==
    last.op = "max_drawdown_pct" =>
        /\ last.result # None
        /\ last.result[1].num <= 0
        /\ NonDecreasing(TotalValues) => last.result[1].num = 0

\* C28, amended: with positive initial cash, max_drawdown_pct is <= 0 for
\* every series of daily snapshots, and equals 0 exactly when the series of
\* snapshot total values is monotonically non-decreasing and its first value
\* is not below the initial cash.
C28_Drawdown ==
    (last.op = "max_drawdown_pct" /\ initial_cash > 0) =>
        /\ last.result # None
        /\ last.result[1].num <= 0
        /\ last.result[1].num = 0 <=>
              /\ NonDecreasing(TotalValues)
              /\ TotalValues # << >> => TotalValues[1] >= initial_cash

\* a non-decreasing series that starts below the initial cash: the drawdown
\* is negative
C28_Witness ==
    /\ last.op = "max_drawdown_pct"
    /\ Len(daily_values) = 2
    /\ TotalValues[1] < initial_cash
    /\ TotalValues[1] < TotalValues[2]
    /\ last.result # None
    /\ last.result[1].num < 0

\* C29 as stated: sharpe_ratio returns 0.0 whenever fewer than two daily
\* snapshots exist, and whenever all snapshot total values are identical, for
\* any number of snapshots from two upward.
C29_Original ==
    (/\ last.op = "sharpe_ratio"
     /\ \/ Len(daily_values) < 2
        \/ \A i \in DOMAIN TotalValues : TotalValues[i] = TotalValues[1])
        => last.result.excess.num = 0

\* money paid for, and shares bought in, the buys of this stock among the
\* first n trades
RECURSIVE EarlierCost(_, _)
EarlierCost(code, n) ==
    IF n = 0 THEN 0
    ELSE (IF trade_history[n].action = "buy" /\ trade_history[n].stock_code = code
          THEN trade_history[n].price * trade_history[n].quantity ELSE 0)
         + EarlierCost(code, n - 1)
RECURSIVE EarlierQuantity(_, _)
EarlierQuantity(code, n) ==
    IF n = 0 THEN 0
    ELSE (IF trade_history[n].action = "buy" /\ trade_history[n].stock_code = code
          THEN trade_history[n].quantity ELSE 0)
         + EarlierQuantity(code, n - 1)

Sells == { i \in DOMAIN trade_history : trade_history[i].action = "sell" }

\* the sells priced strictly above the quantity-weighted average price of the
\* earlier buys of their stock
Wins ==
    { i \in Sells :
        LET t == trade_history[i] IN
        /\ EarlierQuantity(t.stock_code, i - 1) > 0
        /\ t.price * EarlierQuantity(t.stock_code, i - 1)
              > EarlierCost(t.stock_code, i - 1) }

\* C30: win_rate is 0.0 when the trade history contains no sell; otherwise it
\* is 100 * (number of sells priced strictly above the quantity-weighted
\* average price of all earlier buys of that stock) / (number of sells),
\* within [0, 100], and computing it does not change the portfolio.
C30_WinRate ==
    [][last'.op = "win_rate" =>
        /\ Sells = {} => last'.result = Frac(0, 1)
        /\ Sells # {} =>
              last'.result = Frac(100 * Cardinality(Wins), Cardinality(Sells))
        /\ last'.result.num >= 0
        /\ last'.result.num <= 100 * last'.result.den
        /\ UNCHANGED <<pfVars, initial_cash>>]_vars

\* five A bought at 10 and two at 20 (average 90/7), then a sell at 15: a
\* win, though below the price of the last buy; the rate is 100
C30_Witness ==
    /\ last.op = "win_rate"
    /\ Len(trade_history) = 3
    /\ trade_history[1].price = 10
    /\ trade_history[2].price = 20
    /\ trade_history[3].action = "sell"
    /\ trade_history[3].price = 15
    /\ \A i \in 1 .. 3 : trade_history[i].stock_code = "A"
    /\ last.result = Frac(100, 1)

----------------------------------------------------------------------------
(* PriceDataProvider: the closing price of one stock on a date, from the   *)
(* cache file and the market data source. Dates are day numbers.           *)

\* range(7) of get_price_on_date: the days it looks back over, the target
\* date included
LookbackDays == 7

\* the dates prices are asked for run from 0 to MaxPriceDay
MaxPriceDay == 8

\* the records among `rows` dated within [start, end]
RowsWithin(rows, start, end) == { x \in DOMAIN rows : start <= x /\ x <= end }

\* _fetch_and_cache(stock_code, start, end, cache): the cache with the rows the
\* source returns for the range written over it; unchanged when DataReader
\* raises or returns nothing
fetch_and_cache(cache, market, start, end, raises) ==
    LET rows == RowsWithin(market, start, end) IN
    IF raises \/ rows = {} THEN cache
    ELSE [x \in DOMAIN cache \cup rows |-> IF x \in rows THEN market[x] ELSE cache[x]]

\* get_prices(stock_code, d, d): the cache afterwards and the record of d, if
\* there is one; a date missing from the cache is fetched with 5 days before
\* it and one day after it
get_prices(cache, market, d, raises) ==
    LET cache1 == IF d \in DOMAIN cache THEN cache
                  ELSE fetch_and_cache(cache, market, d - 5, d + 1, raises)
    IN [cache |-> cache1,
        fetched |-> d \notin DOMAIN cache,
        record |-> IF d \in DOMAIN cache1 THEN Some(cache1[d]) ELSE None]

\* (a slip: the search runs forward from the target date)
RECURSIVE price_loop_forward(_, _, _, _, _, _)
price_loop_forward(cache, market, target_date, i, down, lookups) ==
    IF i >= LookbackDays
    THEN [cache |-> cache, price |-> None, date |-> None, lookups |-> lookups]
    ELSE
    LET d == target_date + i
        r == get_prices(cache, market, d, i < down)
        seen == Append(lookups, [date |-> d, found |-> r.record # None,
                                 failed |-> r.fetched /\ i < down])
    IN IF r.record # None
       THEN [cache |-> r.cache, price |-> r.record, date |-> Some(d), lookups |-> seen]
       ELSE price_loop_forward(r.cache, market, target_date, i + 1, down, seen)

\* the loop of get_price_on_date from its i-th round on; DataReader raises in
\* the rounds before `down`. lookups is the history of the dates looked up
RECURSIVE price_loop(_, _, _, _, _, _)
price_loop(cache, market, target_date, i, down, lookups) ==
    IF i >= LookbackDays
    THEN [cache |-> cache, price |-> None, date |-> None, lookups |-> lookups]
    ELSE
    LET d == target_date - i
        r == get_prices(cache, market, d, i < down)
        seen == Append(lookups, [date |-> d, found |-> r.record # None,
                                 failed |-> r.fetched /\ i < down])
    IN IF r.record # None
       THEN [cache |-> r.cache, price |-> r.record, date |-> Some(d), lookups |-> seen]
       ELSE price_loop(r.cache, market, target_date, i + 1, down, seen)

\* PriceDataProvider.get_price_on_date(stock_code, target_date)
get_price_on_date(cache, market, target_date, down) ==
    price_loop(cache, market, target_date, 0, down, << >>)

PriceDays == 0 .. MaxPriceDay

\* the close of a day: the cache file is written from the source's records
\* only, so both hold the same close for a day
MarketClose(d) == 100 + d

\* the source has records for at most two of the days; the cache file starts
\* empty or with one record fetched earlier
PriceInit ==
    \E traded \in { t \in SUBSET PriceDays : Cardinality(t) <= 2 } :
    \E cached \in { t \in SUBSET traded : Cardinality(t) <= 1 } :
        price_data = [cache |-> [x \in cached |-> MarketClose(x)],
                      market |-> [x \in traded |-> MarketClose(x)]]

\* the source answers every request, answers none, or fails the first only
Outages == {0, 1, LookbackDays}

GetPriceOnDate ==
    \E target_date \in PriceDays, down \in Outages :
        LET r == get_price_on_date(price_data.cache, price_data.market,
                                   target_date, down)
        IN /\ price_data' = [price_data EXCEPT !.cache = r.cache]
           /\ last' = [op |-> "get_price_on_date", target_date |-> target_date,
                       price |-> r.price, date |-> r.date, lookups |-> r.lookups,
                       before |-> price_data.cache]
           /\ UNCHANGED <<riskVars, execVars, pfVars, valid_calls, strategy, cycleVars,
                          sim_date, replay>>

PriceNext == GetPriceOnDate

PriceSpecInit ==
    /\ RiskInit
    /\ dry_run = FALSE
    /\ succeeded = 0
    /\ PfIdle
    /\ strategy = DefaultStrategy
    /\ cycles = [c \in CycleIds |-> CycleIdle]
    /\ running = 0
    /\ sim_date = 0
    /\ replay = [start_date |-> 0, end_date |-> 0, all_articles |-> << >>,
                 processed |-> << >>]
    /\ PriceInit
    /\ last = Idle

SpecPrice == PriceSpecInit /\ [][PriceNext]_vars

\* the days of the window of a target date that have a record, in the cache
\* file as it was or at the source
Recorded(before, target_date) ==
    { x \in target_date - (LookbackDays - 1) .. target_date :
        x \in DOMAIN before \/ x \in DOMAIN price_data.market }

Latest(days) == CHOOSE x \in days : \A y \in days : y <= x

\* the close on record for a day: the cache file's, else the source's
CloseOf(before, x) == IF x \in DOMAIN before THEN before[x] ELSE price_data.market[x]

----------------------------------------------------------------------------
(* VictorTrading.run_analysis_cycle with faults in its steps.              *)

\* where an exception is raised in the steps 1 to 4 of a cycle: nowhere; in
\* collect_all (collect_news catches it and sends an alert); in collect_all
\* and again in send_error_alert; in analyze_news; in execute_batch before
\* any order; in get_execution_summary after the orders
StepFaults == {"none", "collect", "alert", "analyze", "execute", "summary"}

\* the faults of one cycle: in its steps, in get_balance for the report, and
\* in send_cycle_result
CycleFault(steps, balance, slack) == [steps |-> steps, balance |-> balance, slack |-> slack]

\* the signals, the broker and the faults of one cycle (of two articles):
\* every signal without a fault, and every fault of the steps, with and
\* without the two later faults, with good news or bad news of A
CycleInputs ==
    { [found |-> found, broker |-> broker, fault |-> CycleFault("none", FALSE, FALSE)] :
        found \in LiveSignals, broker \in {LiveBroker(112000)} }
    \cup { [found |-> found, broker |-> LiveBroker(100000),
            fault |-> CycleFault(steps, later, later)] :
            found \in {<< Signal("A", 12, 480) >>, << Signal("A", 12, -600) >>},
            steps \in StepFaults, later \in BOOLEAN }

CycleSummary(articles, signals, decisions, executed, failed) ==
    [articles_collected |-> articles, signals_generated |-> signals,
     decisions_made |-> decisions, trades_executed |-> executed,
     trades_failed |-> failed]

\* the try block of run_analysis_cycle: the exception that leaves it, if any,
\* the summary as far as it was filled, and the risk manager afterwards
cycle_steps(rm, now, dry, st, articles, found, broker, fault) ==
    LET collected == IF fault \in {"collect", "alert"} THEN 0 ELSE articles
        signals == IF collected = 0 THEN << >> ELSE found
        outcome(decisions, b) ==
            LET executed ==
                    Cardinality({ i \in DOMAIN b.results : b.results[i].success })
            IN IF fault = "alert"
               THEN [exc |-> Some("alert"), rm |-> rm, results |-> << >>,
                     summary |-> CycleSummary(0, 0, 0, 0, 0)]
               ELSE IF fault = "analyze" /\ collected # 0
               THEN [exc |-> Some("analyze"), rm |-> rm, results |-> << >>,
                     summary |-> CycleSummary(collected, 0, 0, 0, 0)]
               ELSE IF fault \in {"execute", "summary"} /\ decisions # << >>
               THEN [exc |-> Some(fault), rm |-> b.rm, results |-> b.results,
                     summary |-> CycleSummary(collected, Len(signals),
                                              Len(decisions), 0, 0)]
               ELSE [exc |-> None, rm |-> b.rm, results |-> b.results,
                     summary |-> CycleSummary(collected, Len(signals), Len(decisions),
                                              executed, Len(b.results) - executed)]
    IN CHOOSE t \in
         UNION { { outcome(decisions, b) :
                     b \in { IF fault = "execute" THEN [rm |-> rm, results |-> << >>]
                             ELSE execute_batch(rm, now, dry, decisions,
                                                [i \in DOMAIN decisions |-> broker]) } } :
                 decisions \in { make_trading_decisions(st, signals, broker) } } : TRUE

\* (a slip: the steps run outside the try block, so that their exception
\* leaves the cycle before the notification)
run_analysis_cycle_bare(rm, now, dry, st, found, broker, f) ==
    CHOOSE r \in
      { [raised |-> t.exc, rm |-> t.rm, results |-> t.results,
         returned |-> IF t.exc = None THEN Some(t.summary) ELSE None,
         notifications |-> IF t.exc = None
                           THEN << [summary |-> t.summary, error |-> None,
                                    account_balance |-> IF f.balance THEN None
                                                        ELSE broker.balance,
                                    sent |-> ~f.slack] >>
                           ELSE << >>] :
        t \in { cycle_steps(rm, now, dry, st, 2, found, broker, f.steps) } } : TRUE

\* run_analysis_cycle(): the steps, the balance for the report and the Slack
\* notification, each in its own try; notifications are the calls of
\* send_cycle_result
run_analysis_cycle(rm, now, dry, st, found, broker, f) ==
    CHOOSE r \in
      { [raised |-> None, rm |-> t.rm, results |-> t.results,
         returned |-> Some(t.summary),
         notifications |-> << [summary |-> t.summary, error |-> t.exc,
                               account_balance |-> IF f.balance THEN None
                                                   ELSE broker.balance,
                               sent |-> ~f.slack] >>] :
        t \in { cycle_steps(rm, now, dry, st, 2, found, broker, f.steps) } } : TRUE

\* one whole cycle, as the scheduler's job runs it
AnalysisCycle ==
    /\ running = 0
    /\ succeeded <= max_trades_per_day
    /\ \E in \in CycleInputs :
       \E r \in { run_analysis_cycle(RM, today, dry_run, strategy, in.found,
                                     in.broker, in.fault) } :
        /\ SetRM(r.rm)
        /\ succeeded' = SucceededAfter(r.rm,
                            Cardinality({ i \in DOMAIN r.results : r.results[i].success }))
        /\ last' = [op |-> "run_analysis_cycle", fault |-> in.fault.steps,
                    balance_fails |-> in.fault.balance, slack_fails |-> in.fault.slack,
                    raised |-> r.raised, returned |-> r.returned,
                    notifications |-> r.notifications, results |-> r.results]
    /\ UNCHANGED <<today, recorded_today, dry_run, nonCore>>

FaultNext ==
    \/ ResetDaily
    \/ AnalysisCycle

SpecFaults == ExecSpecInit /\ [][FaultNext]_vars

\* C32: run_analysis_cycle never raises: an exception in news collection,
\* analysis, decision making or order execution is caught, and the cycle
\* still attempts the result notification exactly once and returns its
\* summary; the notification carries the summary and the caught error.
C32_CycleNeverRaises ==
    last.op = "run_analysis_cycle" =>
        /\ last.raised = None
        /\ last.returned # None
        /\ Len(last.notifications) = 1
        /\ last.notifications[1].summary = last.returned[1]
        /\ last.notifications[1].error # None <=>
              (\/ last.fault = "alert"
               \/ last.fault = "analyze" /\ last.returned[1].articles_collected # 0
               \/ /\ last.fault \in {"execute", "summary"}
                  /\ last.returned[1].decisions_made # 0)
        /\ last.returned[1].trades_executed + last.returned[1].trades_failed
              \in {0, Len(last.results)}

\* execute_batch raised with decisions at hand, the balance for the report
\* and the Slack call failed too: one notification was attempted and the
\* summary returned
C32_Witness ==
    /\ last.op = "run_analysis_cycle"
    /\ last.fault = "execute"
    /\ last.balance_fails
    /\ last.slack_fails
    /\ last.returned # None
    /\ last.returned[1].decisions_made > 0
    /\ Len(last.notifications) = 1
    /\ last.notifications[1].error = Some("execute")

----------------------------------------------------------------------------
\* Strategy sizing against order validation

\* the balance evaluate was given, as validate_order reads it
RiskView(balance, holdings) ==
    [cash |-> balance.cash,
     total_eval_amount |-> balance.total_eval_amount.num \div balance.total_eval_amount.den,
     holdings |-> holdings]

\* C33 (as stated): every BUY decision evaluate produces from a balance is
\* accepted by validate_order against the same balance whenever can_trade()
\* is true, whatever the stock's current price.
C33_Original ==
    (/\ last.op = "evaluate"
     /\ last.result # None
     /\ last.result[1].action = "buy"
     /\ can_trade(RM, today).ok) =>
        validate_order(RM, today, last.result[1],
                       RiskView(last.balance, last.holdings)).ok

----------------------------------------------------------------------------
\* The gate once closed: execute and execute_batch on one day

\* the calls made at the gate: a buy and a sell, with a broker that fills
\* either (the sell at a loss or at a profit), that cannot report the balance,
\* or whose order call raises
GateBrokers ==
    { BrokerUp,
      [BrokerUp EXCEPT !.price = Some(120000)],
      [BrokerUp EXCEPT !.balance = None],
      [BrokerUp EXCEPT !.order = None] }

GateDecisions == { Decision("buy", "A", 1, None), Decision("sell", "A", 1, None) }

GateExecute ==
    /\ succeeded <= max_trades_per_day
    /\ \E d \in GateDecisions, broker \in GateBrokers :
        LET r == execute(RM, today, dry_run, d, broker) IN
        /\ SetRM(r.rm)
        /\ succeeded' = SucceededAfter(r.rm, IF r.success THEN 1 ELSE 0)
        /\ last' = [op |-> "execute", result |-> [r EXCEPT !.rm = None]]
    /\ UNCHANGED <<today, recorded_today, dry_run, nonCore>>

GateExecuteBatch ==
    /\ succeeded <= max_trades_per_day
    /\ \E n \in 1..2 :
       \E ds \in [1..n -> GateDecisions] :
        LET b == execute_batch(RM, today, dry_run, ds, [i \in 1..n |-> BrokerUp]) IN
        /\ SetRM(b.rm)
        /\ succeeded' = SucceededAfter(b.rm,
                            Cardinality({ i \in DOMAIN b.results : b.results[i].success }))
        /\ last' = [op |-> "execute_batch", results |-> b.results]
    /\ UNCHANGED <<today, recorded_today, dry_run, nonCore>>

GateNext ==
    \/ NextDay
    \/ ResetDaily
    \/ GateExecute
    \/ GateExecuteBatch

SpecGate == ExecSpecInit /\ [][GateNext]_vars

\* what can_trade() returns when called now
GateClosed == ~can_trade(RM, today).ok

\* a result of a refused decision: failed, nothing sent to the broker
Refused(r) == ~r.success /\ ~r.submitted /\ ~r.placed

\* C34: once can_trade() returned false on a day it keeps returning false, and
\* every execute / execute_batch result is a failure with no order submitted
\* and no trade recorded, until reset_daily or the date rollover.
C34_GateStaysClosed ==
    [][(GateClosed /\ today' = today /\ last'.op # "reset_daily") =>
          /\ ~can_trade(RM', today').ok
          /\ can_trade(RM', today').reason = can_trade(RM, today).reason
          /\ daily_stats' = daily_stats
          /\ last'.op = "execute" =>
                /\ Refused(last'.result)
                /\ last'.result.error_message \in
                      {"Failed to get balance", can_trade(RM, today).reason}
          /\ last'.op = "execute_batch" =>
                \A i \in DOMAIN last'.results :
                    /\ Refused(last'.results[i])
                    /\ last'.results[i].error_message = can_trade(RM, today).reason]_vars

\* closed by the loss limit with a trade still left in the day's count: the
\* next execute of a sell the broker would fill at a profit is refused
C34_Witness ==
    /\ last.op = "execute"
    /\ last.result.decision.action = "sell"
    /\ last.result.error_message = "Daily loss limit reached"
    /\ daily_stats.trade_count = 1
    /\ daily_stats.realized_pnl < 0
    /\ ~last.result.submitted

----------------------------------------------------------------------------
\* The portfolio's ledger

\* sum of total_amount over the records of one action
RECURSIVE AmountOf(_, _)
AmountOf(history, action) ==
    IF history = << >> THEN 0
    ELSE (IF Head(history).action = action THEN Head(history).total_amount ELSE 0)
         + AmountOf(Tail(history), action)

\* sum of quantity over the records of one action and stock
RECURSIVE QuantityOf(_, _, _)
QuantityOf(history, action, code) ==
    IF history = << >> THEN 0
    ELSE (IF Head(history).action = action /\ Head(history).stock_code = code
          THEN Head(history).quantity ELSE 0)
         + QuantityOf(Tail(history), action, code)

IsPrefix(s, t) == Len(s) <= Len(t) /\ \A i \in 1..Len(s) : t[i] = s[i]

\* C35: in every reachable state cash = initial_cash - (buy amounts) + (sell
\* amounts), each held quantity is the bought minus the sold quantity of its
\* stock and is >= 1, and trade_history and daily_values only grow by
\* appending: an accepted buy or sell appends exactly one record and no
\* existing record is changed or removed.
C35_Ledger ==
    /\ [](/\ cash = initial_cash - AmountOf(trade_history, "buy")
                                 + AmountOf(trade_history, "sell")
          /\ \A c \in DOMAIN pf_holdings :
                /\ pf_holdings[c].qty = QuantityOf(trade_history, "buy", c)
                                        - QuantityOf(trade_history, "sell", c)
                /\ pf_holdings[c].qty >= 1)
    /\ [][/\ IsPrefix(trade_history, trade_history')
          /\ IsPrefix(daily_values, daily_values')
          /\ (last'.op \in {"buy", "sell"} /\ last'.ok) =>
                /\ Len(trade_history') = Len(trade_history) + 1
                /\ LET t == trade_history'[Len(trade_history')] IN
                   /\ t.action = last'.op
                   /\ t.stock_code = last'.stock_code
                   /\ t.quantity = last'.quantity
                   /\ t.price = last'.price
                   /\ t.total_amount = last'.quantity * last'.price
          /\ (last'.op \in {"buy", "sell"} /\ ~last'.ok) =>
                trade_history' = trade_history
          /\ last'.op \in {"buy", "sell"} => daily_values' = daily_values
          /\ last'.op = "record_daily_value" =>
                /\ Len(daily_values') = Len(daily_values) + 1
                /\ trade_history' = trade_history]_vars

\* "A" bought twice and one share sold, "B" never held: one share of "A" is
\* left beside the cash of the three records
C35_Witness ==
    /\ Len(trade_history) = 3
    /\ trade_history[3].action = "sell"
    /\ trade_history[3].quantity = 1
    /\ DOMAIN pf_holdings = {"A"}
    /\ pf_holdings["A"].qty = 1
    /\ initial_cash = 500
    /\ cash = 480
    /\ Len(daily_values) = 1

----------------------------------------------------------------------------
\* Replay orders against the simulated portfolio

\* the records the day added to the trade history
DayTrades == SubSeq(trade_history, Len(last.before.trade_history) + 1, Len(trade_history))

\* the day's executable decisions that have a positive close price
Priced == SelectSeq(last.executable, LAMBDA x : HasPrice(x, last.prices))

\* C36: in backtest replay with the default sizing, evaluate_batch yields at
\* most one decision per stock per day and the simulated portfolio never
\* rejects an order the engine issues: every executable decision whose close
\* price for the day is positive appears in the trade history with the decided
\* quantity, and at most max_decisions trades are added per replay day.
C36_NoRejection ==
    last.op = "process_day" =>
        /\ \A i, j \in DOMAIN last.decisions :
              i # j => last.decisions[i].stock_code # last.decisions[j].stock_code
        /\ Len(DayTrades) = Len(Priced)
        /\ \A i \in DOMAIN Priced :
              /\ DayTrades[i].action = Priced[i].action
              /\ DayTrades[i].stock_code = Priced[i].stock_code
              /\ DayTrades[i].quantity = Priced[i].quantity
              /\ DayTrades[i].price = last.prices[Priced[i].stock_code][1]
              /\ DayTrades[i].date = last.date
        /\ Len(DayTrades) <= max_decisions
        /\ max_decisions * strategy.max_single_trade_ratio <= 100 * strategy.split_count

\* a day that sells a held stock and buys another: both orders are in the
\* trade history with the decided quantities
C36_Witness ==
    /\ last.op = "process_day"
    /\ Len(Priced) = 2
    /\ Len(DayTrades) = 2
    /\ \E i, j \in 1..2 : DayTrades[i].action = "sell" /\ DayTrades[j].action = "buy"
    /\ \A i \in 1..2 : DayTrades[i].quantity = Priced[i].quantity

----------------------------------------------------------------------------
\* Realized P&L of live sells

\* sum of the realized P&L the sell records of the day carry
RECURSIVE PnlOf(_)
PnlOf(trades) ==
    IF trades = << >> THEN 0
    ELSE (IF Head(trades).action = "sell" /\ Head(trades).realized_pnl # None
          THEN Head(trades).realized_pnl[1] ELSE 0)
         + PnlOf(Tail(trades))

\* a live execute of a SELL that succeeded
LiveSellDone(l) ==
    /\ l.op = "execute"
    /\ ~dry_run
    /\ l.result.success
    /\ l.result.decision.action = "sell"

\* (current_price - avg_buy_price) * decision.quantity from what the broker
\* answered before the order
PnlRead(l) ==
    (l.calls.price[1][1] - l.calls.holding[1].h.avg_buy_price)
        * l.result.decision.quantity

\* C37 (as stated): for a live SELL the realized P&L passed to record_trade is
\* (current_price - avg_buy_price) * decision.quantity, computed from the
\* holding and the price read before the order is submitted, and the day's
\* realized_pnl is the sum of these values over the successful sells; buys and
\* failed orders never change it (a new day's first call starts it from 0).
C37_Original ==
    [][/\ LiveSellDone(last') =>
            /\ last'.calls.holding[1].kind = "found"
            /\ daily_stats'.trades[Len(daily_stats'.trades)].realized_pnl
                  = Some(PnlRead(last'))
            /\ daily_stats'.realized_pnl = StatsOfToday.realized_pnl + PnlRead(last')
       /\ (last'.op = "execute" /\ ~dry_run /\ ~LiveSellDone(last')) =>
            daily_stats'.realized_pnl
                \in {daily_stats.realized_pnl, StatsOfToday.realized_pnl}]_vars

\* C37 (amended): the same when get_holding returned the holding; when it
\* returned none, None is passed and the day's realized_pnl stays as it was.
\* The day's realized_pnl is the sum of the values passed with the sells.
C37_RealizedPnl ==
    /\ [][/\ LiveSellDone(last') =>
               IF last'.calls.holding[1].kind = "found"
               THEN /\ daily_stats'.trades[Len(daily_stats'.trades)].realized_pnl
                          = Some(PnlRead(last'))
                    /\ daily_stats'.realized_pnl
                          = StatsOfToday.realized_pnl + PnlRead(last')
               ELSE /\ daily_stats'.trades[Len(daily_stats'.trades)].realized_pnl = None
                    /\ daily_stats'.realized_pnl = StatsOfToday.realized_pnl
          /\ (last'.op = "execute" /\ ~dry_run /\ ~LiveSellDone(last')) =>
               daily_stats'.realized_pnl
                   \in {daily_stats.realized_pnl, StatsOfToday.realized_pnl}]_vars
    /\ [](~dry_run => daily_stats.realized_pnl = PnlOf(daily_stats.trades))

\* a live sell of one share bought at 100000 and priced 120000 before the
\* order: 20000 is on the day's books
C37_Witness ==
    /\ LiveSellDone(last)
    /\ last.calls.holding[1].kind = "found"
    /\ last.calls.price = Some(Some(120000))
    /\ daily_stats.trade_count = 1
    /\ daily_stats.realized_pnl = 20000
    /\ daily_stats.trades[1].realized_pnl = Some(20000)

----------------------------------------------------------------------------
\* Sell sizing against the share checks

\* the holdings list as a SimulatedPortfolio holding the same positions
AsPortfolio(holdings) ==
    [cash |-> 0,
     holdings |-> [c \in { holdings[i].stock_code : i \in DOMAIN holdings } |->
                      LET h == FindHolding(holdings, c)[1] IN
                      [name |-> "name", qty |-> h.quantity, avg_price |-> Frac(1, 1)]],
     trade_history |-> << >>]

\* C38: every SELL decision evaluate returns for a holding with quantity >= 1
\* has 1 <= quantity <= held quantity (stop-loss, take-profit and
\* negative-sentiment sells alike), so neither validate_order nor
\* SimulatedPortfolio.sell applied to the same holdings rejects it for
\* insufficient shares.
C38_SellWithinHolding ==
    (/\ last.op = "evaluate"
     /\ last.result # None
     /\ last.result[1].action = "sell") =>
        LET d == last.result[1]
            found == FindHolding(last.holdings, d.stock_code)
        IN /\ found # None
           /\ found[1].quantity >= 1 =>
                /\ 1 <= d.quantity
                /\ d.quantity <= found[1].quantity
                /\ validate_order(RM, today, d, RiskView(last.balance, last.holdings)).ok
                /\ sell(AsPortfolio(last.holdings), d.stock_code, d.quantity, 1, 0).ok

\* a single share held at the take-profit rate: half of it rounds to 0 and the
\* decision sells the one share
C38_Witness ==
    /\ last.op = "evaluate"
    /\ last.holdings = << Position("A", 1, 50000, 10) >>
    /\ last.result # None
    /\ last.result[1].action = "sell"
    /\ last.result[1].reason = TakeProfitReason
    /\ last.result[1].quantity = 1

----------------------------------------------------------------------------
\* Non-positive sell quantities

\* C39 (as stated): SimulatedPortfolio.sell with a quantity <= 0 is rejected
\* just as buy rejects it: it returns false and changes neither cash, holdings
\* nor trade history.
C39_Original ==
    [][(last'.op = "sell" /\ last'.quantity <= 0) =>
          /\ ~last'.ok
          /\ cash' = cash
          /\ pf_holdings' = pf_holdings
          /\ trade_history' = trade_history]_vars

====
